---- MODULE Spec2Model ----
\* Model of docktopus' Container (src/src/container.rs): the builder setters,
\* the lifecycle operations create/start/stop/remove/wait/status/logs and the
\* wait loop wait_for_container, against a nondeterministic engine.
EXTENDS Integers, Sequences, FiniteSets, TLC

VARIABLES life, id, name, image, options, pc, op, id0, reqs, wait_stream, pos,
          notified, ret, hist, other

vars == <<life, id, name, image, options, pc, op, id0, reqs, wait_stream, pos,
          notified, ret, hist, other>>

----------------------------------------------------------------------------
\* Bounds of the model

\* longest wait stream the engine delivers
MaxStream == 2
\* number of fields of the options the caller sets on one Container
MaxOptionsSet == 1
\* longest memory string built from the parser's characters
MaxMemoryLen == 2

----------------------------------------------------------------------------
\* Option<T>: None is the empty sequence, Some(x) the one-element sequence

None == << >>
Some(x) == << x >>
Option(S) == {None} \cup {Some(x) : x \in S}
is_none(o) == o = None
is_some(o) == o # None
unwrap(o) == o[1]

----------------------------------------------------------------------------
\* Values the caller and the engine can supply

Images == {"alpine"}
Ids == {"c1", "c2"}
FromIds == {"c1"}
Names == {"web", "db"}
StrLists == {<<"a">>}
Runtimes == {"runc"}
PortMaps == {<<"80/tcp">>}
RestartPolicies == {"always"}
RemoveOptions == Option({"force"})
LogsOptions == Option({"follow"})

\* bollard::errors::Error values the transport can produce: outer tells which
\* enum wraps the value
NoErr == [outer |-> "none", kind |-> "none", error |-> "", code |-> 0]
IoError == [outer |-> "bollard", kind |-> "IOError", error |-> "io", code |-> 0]
ServerError ==
    [outer |-> "bollard", kind |-> "DockerResponseServerError",
     error |-> "no such container", code |-> 404]
DockerContainerWaitError(error, code) ==
    [outer |-> "bollard", kind |-> "DockerContainerWaitError",
     error |-> error, code |-> code]
BollardErrors == {IoError, ServerError}
StreamErrors == {IoError, DockerContainerWaitError("exited", 1)}

\* ContainerWaitResponse { status_code, error: Option<ContainerWaitExitError
\* { message: Option<String> }> }
WaitExitErrors == Option(Option({"oom"}))
OkMsg(status_code, error) ==
    [error |-> error, status_code |-> status_code, ok |-> TRUE, err |-> NoErr]
ErrMsg(e) == [error |-> None, status_code |-> 0, ok |-> FALSE, err |-> e]
Msgs == {OkMsg(0, None), OkMsg(0, Some(Some("oom")))}
            \cup {OkMsg(1, d) : d \in WaitExitErrors}
            \cup {ErrMsg(e) : e \in StreamErrors}

RECURSIVE SeqsUpTo(_, _)
SeqsUpTo(S, n) ==
    IF n = 0 THEN {<< >>}
    ELSE LET shorter == SeqsUpTo(S, n - 1)
         IN shorter \cup {Append(s, x) : s \in {t \in shorter : Len(t) = n - 1}, x \in S}
Streams == SeqsUpTo(Msgs, MaxStream)

\* the engine's textual container states, recognized and not
StateStrings == {"created", "running", "paused", "restarting", "exited",
                 "removing", "dead", "Running", "", "unknown"}

----------------------------------------------------------------------------
\* Results of operations

Pending == [err |-> NoErr, tag |-> "Pending", status |-> "", value |-> << >>]
Ok == [err |-> NoErr, tag |-> "Ok", status |-> "", value |-> << >>]
Err(e) == [err |-> e, tag |-> "Err", status |-> "", value |-> << >>]
OkNone == [err |-> NoErr, tag |-> "OkNone", status |-> "", value |-> << >>]
OkSome(s) == [err |-> NoErr, tag |-> "OkSome", status |-> s, value |-> << >>]
\* Ok(n) of a Result<u64, _>: value holds the limbs of n
OkNum(v) == [err |-> NoErr, tag |-> "OkNum", status |-> "", value |-> v]
RetNone == [err |-> NoErr, tag |-> "None", status |-> "", value |-> << >>]
RetSome == [err |-> NoErr, tag |-> "Some", status |-> "", value |-> << >>]
Panic == [err |-> NoErr, tag |-> "Panic", status |-> "", value |-> << >>]
\* Self, returned by a builder setter
RetSelf == [err |-> NoErr, tag |-> "Self", status |-> "", value |-> << >>]

NoOp == [name |-> "none", wait_for_exit |-> FALSE, arg |-> None]
Op(n, w, a) == [name |-> n, wait_for_exit |-> w, arg |-> a]

\* ContainerOptions::default()
ContainerOptions_default ==
    [name |-> None, env |-> None, cmd |-> None, binds |-> None,
     extra_hosts |-> None, runtime |-> None, port_bindings |-> None,
     restart_policy |-> None, config_override |-> None]

\* the answer to a request that cannot fail
Accepted == [ok |-> TRUE, err |-> NoErr]

\* one engine request as the transport sees it, with the answer it got:
\* whether it succeeded, the error if not and, for a create or a list
\* request, what the engine returned; a create request carries the
\* configuration it submits
Req(kind, rid, rname, arg, resp) ==
    [id |-> rid, name |-> rname, kind |-> kind, ok |-> resp.ok,
     err |-> resp.err, arg |-> arg, answer |-> None, config |-> None]

Kinds(rs) == [i \in 1..Len(rs) |-> rs[i].kind]

\* what has happened to the Container so far: whether it acquired an id,
\* from a create request of create() or start() that succeeded or from from_id
NoHist == [acquired |-> FALSE]

\* a Container that has not been built
Unbuilt ==
    [life |-> "absent", id |-> None, name |-> None, image |-> "",
     options |-> ContainerOptions_default, pc |-> "idle", op |-> NoOp,
     id0 |-> None, reqs |-> << >>, wait_stream |-> << >>, pos |-> 0,
     notified |-> FALSE, ret |-> Pending, hist |-> NoHist]

\* the Container whose operations the actions describe, and the position of
\* its operation in progress, as one value
This ==
    [life |-> life, id |-> id, name |-> name, image |-> image,
     options |-> options, pc |-> pc, op |-> op, id0 |-> id0, reqs |-> reqs,
     wait_stream |-> wait_stream, pos |-> pos, notified |-> notified,
     ret |-> ret, hist |-> hist]

----------------------------------------------------------------------------
Init ==
    /\ life = "absent"
    /\ id = None
    /\ name = None
    /\ image = ""
    /\ options = ContainerOptions_default
    /\ pc = "idle"
    /\ op = NoOp
    /\ id0 = None
    /\ reqs = << >>
    /\ wait_stream = << >>
    /\ pos = 0
    /\ notified = FALSE
    /\ ret = Pending
    /\ hist = NoHist
    /\ other = Unbuilt

\* Container::new
new(img) ==
    /\ life = "absent"
    /\ life' = "live"
    /\ id' = None
    /\ name' = None
    /\ image' = img
    /\ options' = ContainerOptions_default
    /\ UNCHANGED <<pc, op, id0, reqs, wait_stream, pos, notified, ret>>
    /\ UNCHANGED <<hist, other>>

\* impl From<bollard::errors::Error> for Error (#[from])
Bollard(e) == [e EXCEPT !.outer = "Error::Bollard"]
ContainerNotFound ==
    [outer |-> "Error", kind |-> "ContainerNotFound", error |-> "", code |-> 0]
BadContainerStatus(s) ==
    [outer |-> "Error", kind |-> "BadContainerStatus", error |-> s, code |-> 0]

\* the positions every operation leaves behind when it is invoked
Invoke(o) ==
    /\ op' = o
    /\ id0' = id
    /\ wait_stream' = << >>
    /\ pos' = 0
    /\ notified' = FALSE

Callable == life = "live" /\ pc = "idle"

----------------------------------------------------------------------------
\* Container::from_id

\* MountPoint, of which typ, source, destination and mode are read
MountPoint(typ, source, destination, mode) ==
    [typ |-> typ, source |-> source, destination |-> destination, mode |-> mode]

\* the closure from_id passes to filter_map: the bind string of one mount
bind_of(mount) ==
    IF mount.typ # Some("bind") THEN None
    ELSE IF is_none(mount.source) THEN None
    ELSE IF is_none(mount.destination) THEN None
    ELSE LET bind == unwrap(mount.source) \o ":" \o unwrap(mount.destination)
         IN IF is_some(mount.mode)
            THEN Some(bind \o ":" \o unwrap(mount.mode))
            ELSE Some(bind)

\* mounts.into_iter().filter_map(..).collect()
RECURSIVE filter_map_binds(_)
filter_map_binds(mounts) ==
    IF mounts = << >> THEN << >>
    ELSE LET b == bind_of(Head(mounts))
         IN (IF is_some(b) THEN <<unwrap(b)>> ELSE << >>)
                \o filter_map_binds(Tail(mounts))

\* ContainerInspectResponse, of which id, name, config, mounts and
\* host_config are read, or the transport's error
InspectFull(i) ==
    [id |-> Some(i), name |-> Some("/web"), ok |-> TRUE, err |-> NoErr,
     config |-> Some([image |-> Some("alpine"), env |-> Some(<<"a">>),
                      cmd |-> Some(<<"a">>)]),
     mounts |-> Some(<<MountPoint(Some("bind"), Some("/h"), Some("/c"), Some("ro")),
                       MountPoint(Some("volume"), Some("v"), Some("/d"), None),
                       MountPoint(Some("bind"), Some("/g"), Some("/e"), None),
                       MountPoint(Some("bind"), None, Some("/f"), None)>>),
     host_config |-> Some([extra_hosts |-> Some(<<"a">>), runtime |-> Some("runc"),
                           port_bindings |-> Some(<<"80/tcp">>),
                           restart_policy |-> Some("always")])]
InspectBare(i) ==
    [id |-> Some(i), name |-> None, ok |-> TRUE, err |-> NoErr,
     config |-> Some([image |-> Some("alpine"), env |-> None, cmd |-> None]),
     mounts |-> None, host_config |-> None]
InspectResponses ==
    {InspectFull(i) : i \in Ids} \cup {InspectBare(i) : i \in Ids}
    \cup {[InspectBare("c1") EXCEPT !.id = None],
          [InspectBare("c1") EXCEPT !.config = None],
          [InspectFull("c1") EXCEPT !.config =
              Some([image |-> None, env |-> None, cmd |-> None])]}
    \cup {[InspectBare("c1") EXCEPT !.ok = FALSE, !.id = None, !.config = None,
                                    !.err = e] : e \in BollardErrors}

\* the let-else pattern of from_id: id, config and config.image are present
inspect_matches(resp) ==
    /\ is_some(resp.id)
    /\ is_some(resp.config)
    /\ is_some(unwrap(resp.config).image)

\* the ContainerOptions from_id builds from a matching response
from_id_options(resp) ==
    LET hc == resp.host_config
    IN [name |-> resp.name,
        env |-> unwrap(resp.config).env,
        cmd |-> unwrap(resp.config).cmd,
        binds |-> IF is_some(resp.mounts)
                  THEN Some(filter_map_binds(unwrap(resp.mounts))) ELSE None,
        extra_hosts |-> IF is_some(hc) THEN unwrap(hc).extra_hosts ELSE None,
        runtime |-> IF is_some(hc) THEN unwrap(hc).runtime ELSE None,
        port_bindings |-> IF is_some(hc) THEN unwrap(hc).port_bindings ELSE None,
        restart_policy |-> IF is_some(hc) THEN unwrap(hc).restart_policy ELSE None,
        config_override |-> None]

\* Container::from_id
from_id(rid) ==
    /\ life = "absent"
    /\ op' = Op("from_id", FALSE, Some(rid))
    /\ id0' = None
    /\ \E resp \in InspectResponses :
        /\ reqs' = <<[Req("inspect", Some(rid), None, None, resp)
                        EXCEPT !.answer = IF resp.ok THEN Some(resp.id) ELSE None]>>
        /\ IF resp.ok /\ inspect_matches(resp)
           THEN /\ life' = "live"
                /\ id' = Some(unwrap(resp.id))
                /\ name' = resp.name
                /\ image' = unwrap(unwrap(resp.config).image)
                /\ options' = from_id_options(resp)
                /\ ret' = Ok
                /\ hist' = [hist EXCEPT !.acquired = TRUE]
           ELSE /\ ret' = IF resp.ok THEN Err(ContainerNotFound)
                                    ELSE Err(Bollard(resp.err))
                /\ UNCHANGED <<life, id, name, image, options, hist>>
    /\ UNCHANGED <<pc, wait_stream, pos, notified, other>>

----------------------------------------------------------------------------
\* The configuration a caller can pass to config_override

\* the fields of bollard's Config that create copies from the override, in
\* the order of the code
MergedTopFields ==
    {"hostname", "domainname", "user", "attach_stdin", "attach_stdout",
     "attach_stderr", "exposed_ports", "tty", "open_stdin", "stdin_once",
     "env", "cmd", "healthcheck", "args_escaped", "image", "volumes",
     "working_dir", "entrypoint", "network_disabled", "mac_address",
     "on_build", "labels", "stop_signal", "stop_timeout", "shell"}

\* the field of Config, besides host_config, that create does not mention
UnmergedTopFields == {"networking_config"}

TopFields == MergedTopFields \cup UnmergedTopFields

\* the fields of HostConfig that create copies from the override
MergedHostFields ==
    {"binds", "network_mode", "port_bindings", "restart_policy", "auto_remove",
     "volume_driver", "volumes_from", "mounts", "cap_add", "cap_drop",
     "cgroupns_mode", "dns", "dns_options", "dns_search", "extra_hosts",
     "group_add", "ipc_mode", "cgroup", "links", "oom_score_adj", "pid_mode",
     "privileged", "publish_all_ports", "readonly_rootfs", "security_opt",
     "storage_opt", "tmpfs", "uts_mode", "userns_mode", "shm_size", "sysctls",
     "runtime", "console_size", "isolation", "masked_paths", "readonly_paths"}

\* the resource limits of HostConfig, which create does not mention
ResourceHostFields ==
    {"memory", "memory_swap", "memory_reservation", "cpu_shares",
     "cpuset_cpus", "nano_cpus"}

HostFields == MergedHostFields \cup ResourceHostFields

\* HostConfig::default()
HostConfig_default == [f \in HostFields |-> None]

\* Config::default()
Config_default == [f \in TopFields \cup {"host_config"} |-> None]

\* the override of config_override's example: stdin attached and open
Overrides ==
    {[Config_default EXCEPT !.attach_stdin = Some(TRUE), !.open_stdin = Some(TRUE)]}

\* the fields by the type of their value: bool, integer, list or map (both
\* sequences here), and strings for the rest (String, enums, structs)
BoolFields ==
    {"attach_stdin", "attach_stdout", "attach_stderr", "tty", "open_stdin",
     "stdin_once", "args_escaped", "network_disabled", "auto_remove",
     "privileged", "publish_all_ports", "readonly_rootfs"}
IntFields ==
    {"stop_timeout", "oom_score_adj", "shm_size", "memory", "memory_swap",
     "memory_reservation", "cpu_shares", "nano_cpus"}
SeqFields ==
    {"exposed_ports", "env", "cmd", "volumes", "entrypoint", "on_build",
     "labels", "shell", "binds", "port_bindings", "volumes_from", "mounts",
     "cap_add", "cap_drop", "dns", "dns_options", "dns_search", "extra_hosts",
     "group_add", "links", "security_opt", "storage_opt", "tmpfs", "sysctls",
     "console_size", "masked_paths", "readonly_paths"}

\* the values an override can give a field
FieldValues(f) ==
    CASE f \in BoolFields -> BOOLEAN
      [] f \in IntFields -> {1}
      [] f \in SeqFields -> {<< >>, <<"b">>}
      [] f = "image" -> {"busybox"}
      [] OTHER -> {"x"}

\* the override with one more field set, at the top or in its host_config
SetTop(c, f, v) == [c EXCEPT ![f] = Some(v)]
SetHost(c, f, v) ==
    [c EXCEPT !.host_config =
        Some([(IF is_some(@) THEN unwrap(@) ELSE HostConfig_default)
                EXCEPT ![f] = Some(v)])]

\* the override that sets every field, of the top and of its host_config
Config_all ==
    [f \in TopFields \cup {"host_config"} |->
        IF f = "host_config"
        THEN Some([h \in HostFields |-> Some(CHOOSE v \in FieldValues(h) : TRUE)])
        ELSE Some(CHOOSE v \in FieldValues(f) : TRUE)]

\* the overrides create is applied to: no field set, with or without a
\* host_config, one field set to each of its values, every field set
ConfigOverrides ==
    {Config_default, SetTop(Config_default, "host_config", HostConfig_default),
     Config_all}
    \cup UNION {{SetTop(Config_default, f, v) : v \in FieldValues(f)} : f \in TopFields}
    \cup UNION {{SetHost(Config_default, f, v) : v \in FieldValues(f)} : f \in HostFields}

----------------------------------------------------------------------------
\* Builder setters: each consumes the Container and returns it with one
\* field of the options replaced; it is an invocation that sends no request,
\* recorded with the argument it was given

OptionFields == DOMAIN ContainerOptions_default
Settable(field) ==
    /\ Callable
    /\ \/ is_some(options[field])
       \/ Cardinality({f \in OptionFields : is_some(options[f])}) < MaxOptionsSet

\* a setter that keeps the value an earlier call gave the field
setter_keeps_earlier(field, v) ==
    /\ Settable(field)
    /\ Invoke(Op(field, FALSE, Some(v)))
    /\ options' = [options EXCEPT ![field] = IF is_some(@) THEN @ ELSE Some(v)]
    /\ reqs' = << >>
    /\ ret' = RetSelf
    /\ UNCHANGED <<life, id, name, image, pc, hist, other>>

setter(field, v) ==
    /\ Settable(field)
    /\ Invoke(Op(field, FALSE, Some(v)))
    /\ options' = [options EXCEPT ![field] = Some(v)]
    /\ reqs' = << >>
    /\ ret' = RetSelf
    /\ UNCHANGED <<life, id, name, image, pc, hist, other>>

env(v) == setter("env", v)
cmd(v) == setter("cmd", v)
binds(v) == setter("binds", v)
extra_hosts(v) == setter("extra_hosts", v)
port_bindings(v) == setter("port_bindings", v)
runtime(v) == setter("runtime", v)
restart_policy(v) == setter("restart_policy", v)
config_override(v) == setter("config_override", v)

\* with_name keeping the name where the other Container reads it too
with_name_on_client(n) ==
    /\ Settable("name")
    /\ Invoke(Op("with_name", FALSE, Some(n)))
    /\ options' = [options EXCEPT !.name = Some(n)]
    /\ name' = Some(n)
    /\ reqs' = << >>
    /\ ret' = RetSelf
    /\ other' = IF other.life = "live"
                THEN [other EXCEPT !.name = Some(n), !.options.name = Some(n)]
                ELSE other
    /\ UNCHANGED <<life, id, image, pc, hist>>

with_name(n) ==
    /\ Settable("name")
    /\ Invoke(Op("with_name", FALSE, Some(n)))
    /\ options' = [options EXCEPT !.name = Some(n)]
    /\ name' = Some(n)
    /\ reqs' = << >>
    /\ ret' = RetSelf
    /\ UNCHANGED <<life, id, image, pc, hist, other>>

----------------------------------------------------------------------------
\* The engine's answers

\* ContainerCreateResponse { id, warnings } with no, one or two warnings, or
\* the transport's error
CreateResponses ==
    {[id |-> i, ok |-> TRUE, err |-> NoErr, warnings |-> << >>] : i \in Ids}
    \cup {[id |-> "c1", ok |-> TRUE, err |-> NoErr, warnings |-> <<"deprecated">>],
          [id |-> "c2", ok |-> TRUE, err |-> NoErr,
           warnings |-> <<"deprecated", "no swap">>]}
    \cup {[id |-> "", ok |-> FALSE, err |-> e, warnings |-> << >>] : e \in BollardErrors}

\* the answer to a request that returns nothing
UnitResponses ==
    {[ok |-> TRUE, err |-> NoErr]} \cup {[ok |-> FALSE, err |-> e] : e \in BollardErrors}

\* Vec<ContainerSummary>, of which only state is read
ContainerSummaries == {[state |-> s] : s \in Option(StateStrings)}
ListResponses ==
    {[ok |-> TRUE, err |-> NoErr, containers |-> c] :
        c \in {<< >>} \cup {<<x>> : x \in ContainerSummaries}}
    \cup {[ok |-> FALSE, err |-> e, containers |-> << >>] : e \in BollardErrors}

----------------------------------------------------------------------------
\* Container::create: the request and what its answer does to the Container

\* Option<HostConfig>::unwrap_or_default
host_unwrap_or_default(o) == IF is_some(o) THEN unwrap(o) ELSE HostConfig_default

\* the generated configuration without attach_stdout
base_config_detached ==
    [Config_default EXCEPT
        !.image = Some(image),
        !.cmd = options.cmd,
        !.env = options.env,
        !.host_config =
            Some([HostConfig_default EXCEPT
                    !.binds = options.binds,
                    !.extra_hosts = options.extra_hosts,
                    !.port_bindings = options.port_bindings,
                    !.restart_policy = options.restart_policy,
                    !.runtime = options.runtime])]

\* the configuration create generates from the image and the options
base_config ==
    [Config_default EXCEPT
        !.image = Some(image),
        !.cmd = options.cmd,
        !.env = options.env,
        !.attach_stdout = Some(TRUE),
        !.host_config =
            Some([HostConfig_default EXCEPT
                    !.binds = options.binds,
                    !.extra_hosts = options.extra_hosts,
                    !.port_bindings = options.port_bindings,
                    !.restart_policy = options.restart_policy,
                    !.runtime = options.runtime])]

\* a merge that takes the override's host configuration whole
merge_host_replacing(host_config, override_host_config) ==
    override_host_config

\* the host fields of create's merge: a field the override sets replaces the
\* base's
merge_host(host_config, override_host_config) ==
    [f \in HostFields |->
        IF f \in MergedHostFields /\ is_some(override_host_config[f])
        THEN override_host_config[f]
        ELSE host_config[f]]

\* a merge that appends the override's value to the base's
merge_appending(config, override_config) ==
    [f \in DOMAIN config |->
        IF f \in {"env", "cmd"} /\ is_some(override_config[f]) /\ is_some(config[f])
        THEN Some(unwrap(config[f]) \o unwrap(override_config[f]))
        ELSE IF f \in MergedTopFields /\ is_some(override_config[f])
        THEN override_config[f]
        ELSE config[f]]

\* create's merge of the override into the configuration
merge(config, override_config) ==
    LET top == [f \in DOMAIN config |->
                    IF f \in MergedTopFields /\ is_some(override_config[f])
                    THEN override_config[f]
                    ELSE config[f]]
    IN IF is_some(override_config.host_config)
       THEN [top EXCEPT !.host_config =
                Some(merge_host(host_unwrap_or_default(config.host_config),
                                unwrap(override_config.host_config)))]
       ELSE top

\* the configuration create submits
config ==
    IF is_some(options.config_override)
    THEN merge(base_config, unwrap(options.config_override))
    ELSE base_config

\* the request names the container, carries the configuration and tells
\* whether the engine accepted it
create_container(resp) ==
    [Req("create", None, options.name, None, resp)
        EXCEPT !.config = Some(config),
               !.answer = IF resp.ok
                          THEN Some([id |-> resp.id, warnings |-> resp.warnings])
                          ELSE None]

\* create treating a response with warnings as a failure
create_fails_on_warnings ==
    /\ Callable
    /\ Invoke(Op("create", FALSE, None))
    /\ \E resp \in CreateResponses :
        LET accepted == resp.ok /\ resp.warnings = << >>
        IN /\ reqs' = <<create_container(resp)>>
           /\ id' = IF accepted THEN Some(resp.id) ELSE id
           /\ ret' = IF accepted THEN Ok
                     ELSE IF resp.ok THEN Err(ServerError) ELSE Err(resp.err)
           /\ hist' = [hist EXCEPT !.acquired = @ \/ accepted]
    /\ UNCHANGED <<life, name, image, options, pc, other>>

\* create storing the response's id before looking at the result
create_stores_id_on_failure ==
    /\ Callable
    /\ Invoke(Op("create", FALSE, None))
    /\ \E resp \in CreateResponses :
        /\ reqs' = <<create_container(resp)>>
        /\ id' = Some(resp.id)
        /\ ret' = IF resp.ok THEN Ok ELSE Err(resp.err)
        /\ hist' = [hist EXCEPT !.acquired = @ \/ resp.ok]
    /\ UNCHANGED <<life, name, image, options, pc, other>>

\* create taking the override out of the options it submits
create_takes_override ==
    /\ Callable
    /\ Invoke(Op("create", FALSE, None))
    /\ \E resp \in CreateResponses :
        /\ reqs' = <<create_container(resp)>>
        /\ id' = IF resp.ok THEN Some(resp.id) ELSE id
        /\ ret' = IF resp.ok THEN Ok ELSE Err(resp.err)
        /\ hist' = [hist EXCEPT !.acquired = @ \/ resp.ok]
    /\ options' = [options EXCEPT !.config_override = None]
    /\ UNCHANGED <<life, name, image, pc, other>>

\* Container::create
create ==
    /\ Callable
    /\ Invoke(Op("create", FALSE, None))
    /\ \E resp \in CreateResponses :
        /\ reqs' = <<create_container(resp)>>
        /\ id' = IF resp.ok THEN Some(resp.id) ELSE id
        /\ ret' = IF resp.ok THEN Ok ELSE Err(resp.err)
        /\ hist' = [hist EXCEPT !.acquired = @ \/ resp.ok]
    /\ UNCHANGED <<life, name, image, options, pc, other>>

\* start without the check of id: it creates every time
start_always_creates(wait_for_exit) ==
    /\ Callable
    /\ Invoke(Op("start", wait_for_exit, None))
    /\ reqs' = << >>
    /\ ret' = Pending
    /\ pc' = "start_create"
    /\ UNCHANGED <<life, id, name, image, options>>
    /\ UNCHANGED <<hist, other>>

\* Container::start, up to its first await
start(wait_for_exit) ==
    /\ Callable
    /\ Invoke(Op("start", wait_for_exit, None))
    /\ reqs' = << >>
    /\ ret' = Pending
    /\ pc' = IF is_none(id) THEN "start_create" ELSE "start_container"
    /\ UNCHANGED <<life, id, name, image, options>>
    /\ UNCHANGED <<hist, other>>

\* start trying create a second time when the first attempt failed
start_create_retries ==
    /\ pc = "start_create"
    /\ \E resp \in CreateResponses :
        /\ reqs' = Append(reqs, create_container(resp))
        /\ id' = IF resp.ok THEN Some(resp.id) ELSE id
        /\ hist' = [hist EXCEPT !.acquired = @ \/ resp.ok]
        /\ ret' = IF resp.ok \/ reqs = << >> THEN ret ELSE Err(resp.err)
        /\ pc' = IF resp.ok THEN "start_container"
                 ELSE IF reqs = << >> THEN pc ELSE "idle"
    /\ UNCHANGED <<life, name, image, options, op, id0, wait_stream, pos,
                   notified, other>>

\* Container::start: self.create().await?
start_create ==
    /\ pc = "start_create"
    /\ \E resp \in CreateResponses :
        /\ reqs' = Append(reqs, create_container(resp))
        /\ id' = IF resp.ok THEN Some(resp.id) ELSE id
        /\ hist' = [hist EXCEPT !.acquired = @ \/ resp.ok]
        /\ ret' = IF resp.ok THEN ret ELSE Err(resp.err)
        /\ pc' = IF resp.ok THEN "start_container" ELSE "idle"
    /\ UNCHANGED <<life, name, image, options, op, id0, wait_stream, pos,
                   notified, other>>

\* start giving up the id when the start request fails
start_container_forgets_id ==
    /\ pc = "start_container"
    /\ \E resp \in UnitResponses :
        /\ reqs' = Append(reqs, Req("start", Some(unwrap(id)), None, None, resp))
        /\ ret' = IF ~resp.ok THEN Err(resp.err)
                  ELSE IF op.wait_for_exit THEN ret ELSE Ok
        /\ pc' = IF resp.ok /\ op.wait_for_exit THEN "wait" ELSE "idle"
        /\ id' = IF resp.ok THEN id ELSE None
    /\ UNCHANGED <<life, name, image, options, op, id0, wait_stream, pos,
                   notified>>
    /\ UNCHANGED <<hist, other>>

\* Container::start: self.client.start_container(id, None).await?
start_container ==
    /\ pc = "start_container"
    /\ \E resp \in UnitResponses :
        /\ reqs' = Append(reqs, Req("start", Some(unwrap(id)), None, None, resp))
        /\ ret' = IF ~resp.ok THEN Err(resp.err)
                  ELSE IF op.wait_for_exit THEN ret ELSE Ok
        /\ pc' = IF resp.ok /\ op.wait_for_exit THEN "wait" ELSE "idle"
    /\ UNCHANGED <<life, id, name, image, options, op, id0, wait_stream, pos,
                   notified>>
    /\ UNCHANGED <<hist, other>>

----------------------------------------------------------------------------
\* Container::wait and wait_for_container

\* Container::wait, up to its check of id
wait ==
    /\ Callable
    /\ Invoke(Op("wait", FALSE, None))
    /\ reqs' = << >>
    /\ ret' = Pending
    /\ pc' = "wait"
    /\ UNCHANGED <<life, id, name, image, options>>
    /\ UNCHANGED <<hist, other>>

\* Container::wait, called by the caller or by start: the check of id, and
\* docker.wait_container(id, Some(options)) in wait_for_container
wait_container ==
    /\ pc = "wait"
    /\ IF is_none(id)
       THEN /\ ret' = Ok
            /\ pc' = "idle"
            /\ UNCHANGED <<reqs, wait_stream>>
       ELSE /\ \E s \in Streams : wait_stream' = s
            /\ reqs' = Append(reqs, Req("wait", Some(unwrap(id)), None,
                                        Some("not-running"), Accepted))
            /\ pc' = "wait_stream"
            /\ ret' = ret
    /\ UNCHANGED <<life, id, name, image, options, op, id0, pos, notified>>
    /\ UNCHANGED <<hist, other>>

\* Option<String>::unwrap_or_default
unwrap_or_default(o) == IF is_some(o) THEN unwrap(o) ELSE ""

\* the loop body with `continue` in place of `break` on status code 0
wait_msg_zero_continues(msg) ==
    IF msg.ok
    THEN IF msg.status_code # 0 /\ is_some(msg.error)
         THEN [ret |-> Err(DockerContainerWaitError(
                           unwrap_or_default(unwrap(msg.error)),
                           msg.status_code)),
               done |-> TRUE]
         ELSE [ret |-> Pending, done |-> FALSE]
    ELSE [ret |-> Err(msg.err), done |-> TRUE]

\* the loop body losing the detail's message
wait_msg_drops_message(msg) ==
    IF msg.ok
    THEN IF msg.status_code = 0
         THEN [ret |-> Ok, done |-> TRUE]
         ELSE IF is_some(msg.error)
              THEN [ret |-> Err(DockerContainerWaitError("", msg.status_code)),
                    done |-> TRUE]
              ELSE [ret |-> Pending, done |-> FALSE]
    ELSE [ret |-> Err(msg.err), done |-> TRUE]

\* the loop body turning every transport error into a wait error
wait_msg_wraps_transport(msg) ==
    IF msg.ok
    THEN IF msg.status_code = 0
         THEN [ret |-> Ok, done |-> TRUE]
         ELSE IF is_some(msg.error)
              THEN [ret |-> Err(DockerContainerWaitError(
                                unwrap_or_default(unwrap(msg.error)),
                                msg.status_code)),
                    done |-> TRUE]
              ELSE [ret |-> Pending, done |-> FALSE]
    ELSE [ret |-> Err(DockerContainerWaitError(msg.err.error, msg.err.code)),
          done |-> TRUE]

\* the loop body failing on every non-zero status code, detail or not
wait_msg_bare_fails(msg) ==
    IF msg.ok
    THEN IF msg.status_code = 0
         THEN [ret |-> Ok, done |-> TRUE]
         ELSE [ret |-> Err(DockerContainerWaitError(
                           IF is_some(msg.error)
                           THEN unwrap_or_default(unwrap(msg.error)) ELSE "",
                           msg.status_code)),
               done |-> TRUE]
    ELSE [ret |-> Err(msg.err), done |-> TRUE]

\* wait_for_container: the body of the loop for one message of the stream.
\* done tells whether the function returns, ret with what
wait_msg(msg) ==
    IF msg.ok
    THEN IF msg.status_code = 0
         THEN [ret |-> Ok, done |-> TRUE]
         ELSE IF is_some(msg.error)
              THEN [ret |-> Err(DockerContainerWaitError(
                                unwrap_or_default(unwrap(msg.error)),
                                msg.status_code)),
                    done |-> TRUE]
              ELSE [ret |-> Pending, done |-> FALSE]
    ELSE [ret |-> Err(msg.err), done |-> TRUE]

\* wait_for_container failing when the stream ends unresolved
wait_stream_end_fails == Err(DockerContainerWaitError("", 0))

\* wait_for_container: what it returns when the stream has ended
wait_stream_end == Ok

\* the loop recording an outcome without leaving the loop
wait_stream_next_no_return ==
    /\ pc = "wait_stream"
    /\ IF pos = Len(wait_stream)
       THEN /\ ret' = Ok
            /\ pc' = "idle"
            /\ UNCHANGED <<pos, notified>>
       ELSE LET msg == wait_stream[pos + 1]
            IN /\ pos' = pos + 1
               /\ notified' = (notified \/ msg.ok)
               /\ ret' = IF msg.ok THEN (IF msg.status_code = 0 THEN Ok ELSE ret)
                         ELSE Err(msg.err)
               /\ pc' = pc
    /\ UNCHANGED <<life, id, name, image, options, op, id0, reqs, wait_stream>>
    /\ UNCHANGED <<hist, other>>

\* wait_for_container: one wait_stream.next().await and the loop body
wait_stream_next ==
    /\ pc = "wait_stream"
    /\ IF pos = Len(wait_stream)
       THEN /\ ret' = wait_stream_end
            /\ pc' = "idle"
            /\ UNCHANGED <<pos, notified>>
       ELSE LET msg == wait_stream[pos + 1]
                r == wait_msg(msg)
            IN /\ pos' = pos + 1
               /\ notified' = (notified \/ msg.ok)
               /\ ret' = IF r.done THEN r.ret ELSE ret
               /\ pc' = IF r.done THEN "idle" ELSE pc
    /\ UNCHANGED <<life, id, name, image, options, op, id0, reqs, wait_stream>>
    /\ UNCHANGED <<hist, other>>

----------------------------------------------------------------------------
\* stop without the early return on an absent id
stop_unguarded ==
    /\ Callable
    /\ Invoke(Op("stop", FALSE, None))
    /\ \E resp \in UnitResponses :
        /\ reqs' = <<Req("stop", id, None, None, resp)>>
        /\ ret' = IF resp.ok THEN Ok ELSE Err(resp.err)
    /\ UNCHANGED <<life, id, name, image, options, pc>>
    /\ UNCHANGED <<hist, other>>

\* stop taking the id out of the Container, as remove does
stop_takes_id ==
    /\ Callable
    /\ Invoke(Op("stop", FALSE, None))
    /\ IF is_none(id)
       THEN /\ reqs' = << >>
            /\ ret' = Ok
       ELSE \E resp \in UnitResponses :
            /\ reqs' = <<Req("stop", Some(unwrap(id)), None, None, resp)>>
            /\ ret' = IF resp.ok THEN Ok ELSE Err(resp.err)
    /\ id' = None
    /\ UNCHANGED <<life, name, image, options, pc, hist, other>>

\* Container::stop
stop ==
    /\ Callable
    /\ Invoke(Op("stop", FALSE, None))
    /\ IF is_none(id)
       THEN /\ reqs' = << >>
            /\ ret' = Ok
       ELSE \E resp \in UnitResponses :
            /\ reqs' = <<Req("stop", Some(unwrap(id)), None, None, resp)>>
            /\ ret' = IF resp.ok THEN Ok ELSE Err(resp.err)
    /\ UNCHANGED <<life, id, name, image, options, pc>>
    /\ UNCHANGED <<hist, other>>

\* remove borrowing the Container instead of taking it
remove_by_reference(remove_options) ==
    /\ Callable
    /\ Invoke(Op("remove", FALSE, remove_options))
    /\ IF is_none(id)
       THEN /\ reqs' = << >>
            /\ ret' = Ok
       ELSE \E resp \in UnitResponses :
            /\ reqs' = <<Req("remove", Some(unwrap(id)), None, remove_options, resp)>>
            /\ ret' = IF resp.ok THEN Ok ELSE Err(resp.err)
    /\ id' = None
    /\ UNCHANGED <<life, name, image, options, pc>>
    /\ UNCHANGED <<hist, other>>

\* Container::remove: takes the Container by value, and the id out of it
remove(remove_options) ==
    /\ Callable
    /\ Invoke(Op("remove", FALSE, remove_options))
    /\ IF is_none(id)
       THEN /\ reqs' = << >>
            /\ ret' = Ok
       ELSE \E resp \in UnitResponses :
            /\ reqs' = <<Req("remove", Some(unwrap(id)), None, remove_options, resp)>>
            /\ ret' = IF resp.ok THEN Ok ELSE Err(resp.err)
    /\ id' = None
    /\ life' = "consumed"
    /\ UNCHANGED <<name, image, options, pc>>
    /\ UNCHANGED <<hist, other>>

\* from_str matching the state without regard to case
from_str_any_case(s) ==
    CASE s \in {"created", "Created"} -> OkSome("Created")
      [] s \in {"running", "Running", "RUNNING"} -> OkSome("Running")
      [] s \in {"paused", "Paused"} -> OkSome("Paused")
      [] s \in {"restarting", "Restarting"} -> OkSome("Restarting")
      [] s \in {"exited", "Exited"} -> OkSome("Exited")
      [] s \in {"removing", "Removing"} -> OkSome("Removing")
      [] s \in {"dead", "Dead"} -> OkSome("Dead")
      [] OTHER -> Err(BadContainerStatus(s))

\* impl FromStr for ContainerStatus
from_str(s) ==
    CASE s = "created" -> OkSome("Created")
      [] s = "running" -> OkSome("Running")
      [] s = "paused" -> OkSome("Paused")
      [] s = "restarting" -> OkSome("Restarting")
      [] s = "exited" -> OkSome("Exited")
      [] s = "removing" -> OkSome("Removing")
      [] s = "dead" -> OkSome("Dead")
      [] OTHER -> Err(BadContainerStatus(s))

\* Container::status, from the answer to the list request on: containers[0]
\* panics on an empty list
status_of(resp) ==
    IF ~resp.ok THEN Err(Bollard(resp.err))
    ELSE IF Len(resp.containers) = 0 THEN Panic
    ELSE IF is_none(resp.containers[1].state) THEN OkNone
    ELSE from_str(unwrap(resp.containers[1].state))

\* Container::status: client.list_containers with all: true and the id filter
list_containers(resp) ==
    [Req("list", Some(unwrap(id)), None, Some("all"), resp)
        EXCEPT !.answer = IF resp.ok THEN Some(resp.containers) ELSE None]

\* status answering from the result of the status call before it
status_cached ==
    /\ Callable
    /\ Invoke(Op("status", FALSE, None))
    /\ IF is_none(id)
       THEN /\ reqs' = << >>
            /\ ret' = OkNone
       ELSE IF op.name = "status" /\ ret.tag = "OkSome"
       THEN /\ reqs' = << >>
            /\ ret' = ret
       ELSE \E resp \in ListResponses :
            /\ reqs' = <<list_containers(resp)>>
            /\ ret' = status_of(resp)
    /\ UNCHANGED <<life, id, name, image, options, pc>>
    /\ UNCHANGED <<hist, other>>

\* Container::status
status ==
    /\ Callable
    /\ Invoke(Op("status", FALSE, None))
    /\ IF is_none(id)
       THEN /\ reqs' = << >>
            /\ ret' = OkNone
       ELSE \E resp \in ListResponses :
            /\ reqs' = <<list_containers(resp)>>
            /\ ret' = status_of(resp)
    /\ UNCHANGED <<life, id, name, image, options, pc>>
    /\ UNCHANGED <<hist, other>>

\* Container::logs
logs(logs_options) ==
    /\ Callable
    /\ Invoke(Op("logs", FALSE, logs_options))
    /\ IF is_none(id)
       THEN /\ reqs' = << >>
            /\ ret' = RetNone
       ELSE /\ reqs' = <<Req("logs", Some(unwrap(id)), None, logs_options, Accepted)>>
            /\ ret' = RetSome
    /\ UNCHANGED <<life, id, name, image, options, pc>>
    /\ UNCHANGED <<hist, other>>

----------------------------------------------------------------------------
Setters ==
    \/ \E v \in StrLists : env(v) \/ cmd(v) \/ binds(v) \/ extra_hosts(v)
    \/ \E v \in PortMaps : port_bindings(v)
    \/ \E v \in Runtimes : runtime(v)
    \/ \E v \in RestartPolicies : restart_policy(v)
    \/ \E v \in Overrides : config_override(v)
    \/ \E n \in Names : with_name(n)

Next ==
    \/ \E img \in Images : new(img)
    \/ \E rid \in FromIds : from_id(rid)
    \/ Setters
    \/ create
    \/ \E w \in BOOLEAN : start(w)
    \/ start_create
    \/ start_container
    \/ wait
    \/ wait_container
    \/ wait_stream_next
    \/ stop
    \/ \E o \in RemoveOptions : remove(o)
    \/ status
    \/ \E o \in LogsOptions : logs(o)

Spec == Init /\ [][Next]_vars

----------------------------------------------------------------------------
\* The functions of the crate that need no Container, applied to the
\* arguments a caller can pass: op holds the call, ret what it returned

\* strings handed to ContainerStatus::from_str
StatusInputs ==
    StateStrings \cup {"Created", "Paused", "Restarting", "Exited", "Removing",
                       "Dead", "RUNNING", "running ", " running", "stopped",
                       "exit"}

\* a call of a function, which leaves the Container's state alone
Call(o, r) ==
    /\ op' = o
    /\ ret' = r
    /\ UNCHANGED <<life, id, name, image, options, pc, id0, reqs, wait_stream,
                   pos, notified, hist, other>>

\* enum ContainerStatus
ContainerStatus ==
    {"Created", "Running", "Paused", "Restarting", "Exited", "Removing", "Dead"}

\* a returned bool
Bool(b) ==
    [err |-> NoErr, tag |-> IF b THEN "true" ELSE "false", status |-> "",
     value |-> << >>]

\* ContainerStatus::is_active
is_active(s) == s = "Running"

\* is_usable rejecting only a dead container
is_usable_only_dead(s) == s # "Dead"

\* ContainerStatus::is_usable
is_usable(s) == s \notin {"Removing", "Dead"}

\* status.is_active()
call_is_active(s) == Call(Op("is_active", FALSE, Some(s)), Bool(is_active(s)))

\* status.is_usable()
call_is_usable(s) == Call(Op("is_usable", FALSE, Some(s)), Bool(is_usable(s)))

\* u64 values are kept as U64Limbs limbs of LimbBits bits, least significant
\* first, so that no product leaves the range of the checker's integers
LimbBits == 16
U64Limbs == 4
LimbBase == 2 ^ LimbBits

\* v * m + a over the limbs of v: the limbs of the result and the carry out
\* of the last limb
RECURSIVE MulAddFrom(_, _, _, _, _)
MulAddFrom(v, m, c, i, acc) ==
    IF i > Len(v)
    THEN [limbs |-> acc, carry |-> c]
    ELSE LET t == v[i] * m + c
         IN MulAddFrom(v, m, t \div LimbBase, i + 1, Append(acc, t % LimbBase))
MulAdd(v, m, a) == MulAddFrom(v, m, a, 1, << >>)

Zero(n) == [i \in 1..n |-> 0]

Char(s, i) == SubSeq(s, i, i)
DecimalDigits == <<"0", "1", "2", "3", "4", "5", "6", "7", "8", "9">>
IsDigit(c) == \E d \in 1..10 : DecimalDigits[d] = c
DigitValue(c) == (CHOOSE d \in 1..10 : DecimalDigits[d] = c) - 1

\* bytes of a character in UTF-8
Width(c) == IF c = "é" THEN 2 ELSE 1

\* str::len: the length in bytes
RECURSIVE len(_)
len(s) == IF s = "" THEN 0 ELSE Width(Char(s, 1)) + len(SubSeq(s, 2, Len(s)))

\* the digits of a decimal number folded into limbs, None on overflow
RECURSIVE parse_digits(_, _, _)
parse_digits(s, i, acc) ==
    IF i > Len(s)
    THEN Some(acc)
    ELSE LET r == MulAdd(acc, 10, DigitValue(Char(s, i)))
         IN IF r.carry # 0 THEN None ELSE parse_digits(s, i + 1, r.limbs)

\* str::parse::<u64>: an optional plus sign and at least one digit, nothing
\* else, and a value below 2^64; None stands for the ParseIntError
parse_u64(num) ==
    LET digits == IF num # "" /\ Char(num, 1) = "+"
                  THEN SubSeq(num, 2, Len(num))
                  ELSE num
    IN IF digits = "" \/ \E i \in 1..Len(digits) : ~IsDigit(Char(digits, i))
       THEN None
       ELSE parse_digits(digits, 1, Zero(U64Limbs))

\* str::to_uppercase on the characters of the inputs
to_uppercase(c) ==
    CASE c = "k" -> "K"
      [] c = "m" -> "M"
      [] c = "g" -> "G"
      [] c = "x" -> "X"
      [] OTHER -> c

\* DockerError::InvalidResourceLimit
InvalidResourceLimit(msg) ==
    [outer |-> "DockerError", kind |-> "InvalidResourceLimit", error |-> msg,
     code |-> 0]

\* base * 1024, times times: with overflow checks a product that does not
\* fit aborts, without them it wraps
RECURSIVE mul_1024(_, _, _)
mul_1024(base, times, overflow_checks) ==
    IF times = 0
    THEN OkNum(base)
    ELSE LET r == MulAdd(base, 1024, 0)
         IN IF r.carry # 0 /\ overflow_checks
            THEN Panic
            ELSE mul_1024(r.limbs, times - 1, overflow_checks)

\* parse_memory_string; overflow_checks tells how the crate was built.
\* memory.split_at(len - 1) aborts on the empty string, where len - 1
\* either overflows or is past the end, and inside a character
parse_memory_string(memory, overflow_checks) ==
    IF len(memory) = 0 \/ Width(Char(memory, Len(memory))) > 1
    THEN Panic
    ELSE LET num == SubSeq(memory, 1, Len(memory) - 1)
             unit == Char(memory, Len(memory))
             base == parse_u64(num)
             up == to_uppercase(unit)
         IN IF is_none(base)
            THEN Err(InvalidResourceLimit("Invalid memory value: " \o memory))
            ELSE CASE up = "K" -> mul_1024(unwrap(base), 1, overflow_checks)
                   [] up = "M" -> mul_1024(unwrap(base), 2, overflow_checks)
                   [] up = "G" -> mul_1024(unwrap(base), 3, overflow_checks)
                   [] OTHER ->
                        Err(InvalidResourceLimit("Invalid memory unit: " \o unit))

----------------------------------------------------------------------------
\* SystemRequirements::check against what the host reports

\* n as a u64, for n below 2^31
U64(n) == <<n % LimbBase, n \div LimbBase>> \o Zero(U64Limbs - 2)

\* v / d over the limbs of v, for d up to 1024: the limbs of the quotient,
\* least significant first; r is the remainder of the limbs above the i-th
RECURSIVE DivFrom(_, _, _, _)
DivFrom(v, d, i, r) ==
    IF i = 0
    THEN << >>
    ELSE LET t == r * LimbBase + v[i]
         IN DivFrom(v, d, i - 1, t % d) \o <<t \div d>>
Div(v, d) == DivFrom(v, d, Len(v), 0)

\* v % d, for d up to 1024
RECURSIVE ModFrom(_, _, _, _)
ModFrom(v, d, i, r) ==
    IF i = 0 THEN r ELSE ModFrom(v, d, i - 1, (r * LimbBase + v[i]) % d)
Mod(v, d) == ModFrom(v, d, Len(v), 0)

\* a < b for limbs of equal number
Less(a, b) ==
    \E i \in 1..Len(a) :
        /\ a[i] < b[i]
        /\ \A j \in (i + 1)..Len(a) : a[j] = b[j]

\* the {} of format! for a u64
RECURSIVE Display(_)
Display(v) ==
    IF \A i \in 1..Len(v) : v[i] = 0
    THEN "0"
    ELSE LET q == Div(v, 10)
             d == DecimalDigits[Mod(v, 10) + 1]
         IN IF \A i \in 1..Len(q) : q[i] = 0 THEN d ELSE Display(q) \o d

\* DockerError::ValidationError
ValidationError(msg) ==
    [outer |-> "DockerError", kind |-> "ValidationError", error |-> msg, code |-> 0]

\* Path::components of a path without . and ..: the root of an absolute path,
\* then the names between the separators
RECURSIVE names_from(_, _, _)
names_from(s, i, cur) ==
    LET done == IF cur = "" THEN << >> ELSE <<cur>>
    IN IF i > Len(s) THEN done
       ELSE IF Char(s, i) = "/" THEN done \o names_from(s, i + 1, "")
       ELSE names_from(s, i + 1, cur \o Char(s, i))
components(s) ==
    (IF s # "" /\ Char(s, 1) = "/" THEN <<"/">> ELSE << >>) \o names_from(s, 1, "")

\* Path::starts_with: base's components are the first of path's
starts_with(path, base) ==
    LET p == components(path)
        b == components(base)
    IN Len(b) <= Len(p) /\ \A i \in 1..Len(b) : p[i] = b[i]

\* disks.iter().find(..): the place of the first disk whose mount point the
\* data directory starts with, 0 if there is none
find_disk(disks, data_directory) ==
    LET M == {i \in 1..Len(disks) : starts_with(data_directory, disks[i].mount_point)}
    IN IF M = {} THEN 0 ELSE CHOOSE i \in M : \A j \in M : i <= j

\* is_port_available: binding the port on 127.0.0.1 succeeds
is_port_available(host, port) == port \notin host.bound_ports

\* the loop over required_ports, from the i-th port on
RECURSIVE check_ports(_, _, _)
check_ports(self, host, i) ==
    IF i > Len(self.required_ports)
    THEN Ok
    ELSE IF ~is_port_available(host, self.required_ports[i])
         THEN Err(ValidationError("Port " \o Display(U64(self.required_ports[i]))
                                    \o " is already in use"))
         ELSE check_ports(self, host, i + 1)

\* check from the disk space on
check_disk(self, host) ==
    LET d == find_disk(host.disks, self.data_directory)
        available_gb ==
            Div(Div(Div(host.disks[d].available_space, 1024), 1024), 1024)
    IN IF d # 0 /\ Less(available_gb, self.min_disk_gb)
       THEN Err(ValidationError("Insufficient disk space: " \o Display(available_gb)
                                  \o " GB available, " \o Display(self.min_disk_gb)
                                  \o " GB required"))
       ELSE check_ports(self, host, 1)

\* check from the memory limit on
check_memory_limit(self, host, total_memory, overflow_checks) ==
    IF is_none(self.memory_limit)
    THEN check_disk(self, host)
    ELSE LET limit == unwrap(self.memory_limit)
             limit_bytes == parse_memory_string(limit, overflow_checks)
             total_bytes == mul_1024(total_memory, 3, overflow_checks)
         IN IF limit_bytes.tag # "OkNum" THEN limit_bytes
            ELSE IF total_bytes.tag # "OkNum" THEN total_bytes
            ELSE IF Less(total_bytes.value, limit_bytes.value)
            THEN Err(ValidationError("Memory limit " \o limit
                                       \o " exceeds available memory "
                                       \o Display(total_memory) \o "GB"))
            ELSE check_disk(self, host)

\* SystemRequirements::check; host is what sysinfo and the loopback
\* interface report, overflow_checks tells how the crate was built
check(self, host, overflow_checks) ==
    LET total_memory == Div(Div(Div(host.total_memory, 1024), 1024), 1024)
    IN IF Less(total_memory, self.min_memory_gb)
       THEN Err(ValidationError("Insufficient memory: " \o Display(total_memory)
                                  \o " GB available, " \o Display(self.min_memory_gb)
                                  \o " GB required"))
       ELSE check_memory_limit(self, host, total_memory, overflow_checks)

\* the strings up to a length over the characters that matter to the parser
MemoryChars == {"0", "1", "9", "K", "m", "G", "X", ".", "+", "-", "é"}
RECURSIVE StringsUpTo(_)
StringsUpTo(n) ==
    IF n = 0 THEN {""}
    ELSE LET shorter == StringsUpTo(n - 1)
         IN shorter \cup {s \o c : s \in shorter, c \in MemoryChars}

\* limits of the documentation and the tests, and magnitudes at the edge of
\* 64 bits: 2^54, 2^44, 2^34, each with the unit that takes it to 2^64,
\* 2^64 - 1 and 2^64
MemoryExamples ==
    {"512M", "1G", "2K", "1X", "abc", "12.5G", "invalid", "512m", "007k",
     "18014398509481983K", "18014398509481984K", "17592186044416M",
     "17179869184G", "17179869183g", "18446744073709551615K",
     "18446744073709551616K"}

MemoryStrings == StringsUpTo(MaxMemoryLen) \cup MemoryExamples

\* parse_memory_string(memory)
call_parse_memory_string(memory, overflow_checks) ==
    Call(Op("parse_memory_string", FALSE,
            Some([overflow_checks |-> overflow_checks, memory |-> memory])),
         parse_memory_string(memory, overflow_checks))

\* s.parse::<ContainerStatus>()
call_from_str(s) == Call(Op("from_str", FALSE, Some(s)), from_str(s))

FnNext ==
    \/ \E s \in StatusInputs : call_from_str(s)
    \/ \E s \in ContainerStatus : call_is_active(s)
    \/ \E s \in ContainerStatus : call_is_usable(s)
    \/ \E memory \in MemoryStrings, overflow_checks \in BOOLEAN :
            call_parse_memory_string(memory, overflow_checks)

FnSpec == Init /\ [][FnNext]_vars

----------------------------------------------------------------------------
\* create applied to the Containers the builder can produce

\* the options with every setter called
ContainerOptions_all ==
    [name |-> None, env |-> Some(<<"a">>), cmd |-> Some(<<"a">>),
     binds |-> Some(<<"a">>), extra_hosts |-> Some(<<"a">>),
     runtime |-> Some("runc"), port_bindings |-> Some(<<"80/tcp">>),
     restart_policy |-> Some("always"), config_override |-> None]

\* a Container out of new and the setters, not yet created
CreateInit ==
    /\ life = "live"
    /\ id = None
    /\ name = None
    /\ image \in Images
    /\ \E o \in {ContainerOptions_default, ContainerOptions_all},
          c \in Option(ConfigOverrides) :
            options = [o EXCEPT !.config_override = c]
    /\ pc = "idle"
    /\ op = NoOp
    /\ id0 = None
    /\ reqs = << >>
    /\ wait_stream = << >>
    /\ pos = 0
    /\ notified = FALSE
    /\ ret = Pending
    /\ hist = NoHist
    /\ other = Unbuilt

CreateNext == create

CreateSpec == CreateInit /\ [][CreateNext]_vars

----------------------------------------------------------------------------
\* check applied to the requirements a deployment can state, on the hosts it
\* can run on

\* n MiB as a count of bytes
MiB(n) == mul_1024(U64(n), 2, FALSE).value

\* struct SystemRequirements
Requirements(min_memory_gb, min_disk_gb, required_ports, data_directory, memory_limit) ==
    [data_directory |-> data_directory, required_ports |-> required_ports,
     min_disk_gb |-> U64(min_disk_gb), memory_limit |-> memory_limit,
     min_memory_gb |-> U64(min_memory_gb), min_bandwidth_mbps |-> U64(0),
     cpu_limit |-> None, memory_swap |-> None,
     memory_reservation |-> None, cpu_shares |-> None, cpuset_cpus |-> None]

\* limits below, at and above the host's memory, malformed ones, the empty
\* string and one whose byte count is 2^64
MemoryLimits ==
    Option({"1G", "7G", "7680M", "8G", "9G", "abc", "1X", "",
            "18014398509481984K"})

RequirementsSet ==
    {Requirements(m, d, p, dir, l) :
        m \in {4, 8}, d \in {10, 200}, p \in {<< >>, <<80>>, <<443, 80>>},
        dir \in {"/data/db", "data", "/database"}, l \in MemoryLimits}

\* sysinfo's Disk, of which mount_point and available_space are read
Disk(mount_point, available_space) ==
    [mount_point |-> mount_point, available_space |-> available_space]

\* the lists of disks sysinfo reports: a root of 100 GiB free, and a volume
\* mounted on /data with 5 or 500 GiB free, listed before or after it
DiskLists ==
    LET root == Disk("/", MiB(102400))
    IN {<< >>, <<root>>, <<root, Disk("/data", MiB(5120))>>,
        <<Disk("/data", MiB(5120)), root>>, <<root, Disk("/data", MiB(512000))>>}

\* what the host reports: 8 GiB or 7.5 GiB of memory, its disks, the ports
\* taken on the loopback interface, and the directory the process runs in
Hosts ==
    {[disks |-> d, bound_ports |-> b, total_memory |-> t, current_dir |-> "/"] :
        t \in {MiB(8192), MiB(7680)}, d \in DiskLists,
        b \in {{}, {80}, {80, 443}}}

\* the call about to be made
CheckInit ==
    /\ life = "absent"
    /\ id = None
    /\ name = None
    /\ image = ""
    /\ options = ContainerOptions_default
    /\ pc = "idle"
    /\ \E self \in RequirementsSet, host \in Hosts, overflow_checks \in BOOLEAN :
            op = Op("check", FALSE,
                    Some([overflow_checks |-> overflow_checks, host |-> host,
                          self |-> self]))
    /\ id0 = None
    /\ reqs = << >>
    /\ wait_stream = << >>
    /\ pos = 0
    /\ notified = FALSE
    /\ ret = Pending
    /\ hist = NoHist
    /\ other = Unbuilt

\* requirements.check()
call_check ==
    /\ op.name = "check"
    /\ ret = Pending
    /\ Call(op, check(unwrap(op.arg).self, unwrap(op.arg).host,
                      unwrap(op.arg).overflow_checks))

CheckNext == call_check

CheckSpec == CheckInit /\ [][CheckNext]_vars

----------------------------------------------------------------------------
\* SystemRequirements::to_host_config

\* an i64 as its sign and the limbs of its magnitude
I64(neg, mag) == [neg |-> neg, mag |-> mag]

\* 2^64 - v, for v above 0: every limb complemented, plus one
Negated(v) == MulAdd([i \in 1..Len(v) |-> LimbBase - 1 - v[i]], 1, 1).limbs

\* `v as i64` of a u64: the same 64 bits read in two's complement
u64_as_i64(v) ==
    IF v[U64Limbs] >= LimbBase \div 2
    THEN I64(TRUE, Negated(v))
    ELSE I64(FALSE, v)

\* the f64 values a cpu_limit is given: a number of quarters of a CPU, NaN
\* and the infinity
F64(class, quarters) == [class |-> class, quarters |-> quarters]
CpuLimits == {F64("finite", 2), F64("finite", 16), F64("nan", 0), F64("inf", 0)}

\* i64::MAX
I64_MAX == [i \in 1..U64Limbs |-> IF i = U64Limbs THEN LimbBase \div 2 - 1
                                                  ELSE LimbBase - 1]

\* `(cpu * 1e9) as i64`: the product of a number of quarters and 1e9 is the
\* integer quarters * 250000000, NaN is cast to 0 and the infinity to the
\* largest i64
nano_cpus_of(cpu) ==
    CASE cpu.class = "nan" -> I64(FALSE, U64(0))
      [] cpu.class = "inf" -> I64(FALSE, I64_MAX)
      [] OTHER -> I64(FALSE, MulAdd(MulAdd(U64(cpu.quarters), 25000, 0).limbs,
                                   10000, 0).limbs)

\* parse_memory_string(s).ok().map(|v| v as i64)
ok_as_i64(r) == IF r.tag = "OkNum" THEN Some(u64_as_i64(r.value)) ELSE None

\* the value to_host_config returns
RetHostConfig(host_config) ==
    [err |-> NoErr, tag |-> "HostConfig", status |-> "", value |-> host_config]

\* to_host_config: a limit parse_memory_string aborts on aborts it
to_host_config(self, overflow_checks) ==
    LET memory == IF is_some(self.memory_limit)
                  THEN parse_memory_string(unwrap(self.memory_limit), overflow_checks)
                  ELSE Pending
        swap == IF is_some(self.memory_swap)
                THEN parse_memory_string(unwrap(self.memory_swap), overflow_checks)
                ELSE Pending
        reservation ==
            IF is_some(self.memory_reservation)
            THEN parse_memory_string(unwrap(self.memory_reservation), overflow_checks)
            ELSE Pending
    IN IF memory.tag = "Panic" \/ swap.tag = "Panic" \/ reservation.tag = "Panic"
       THEN Panic
       ELSE RetHostConfig(
                [HostConfig_default EXCEPT
                    !.memory = ok_as_i64(memory),
                    !.memory_swap = ok_as_i64(swap),
                    !.memory_reservation = ok_as_i64(reservation),
                    !.cpu_shares = self.cpu_shares,
                    !.cpuset_cpus = self.cpuset_cpus,
                    !.nano_cpus = IF is_some(self.cpu_limit)
                                  THEN Some(nano_cpus_of(unwrap(self.cpu_limit)))
                                  ELSE None])

\* limits that parse, malformed ones, the empty string, one of 2^63 bytes
\* and one of 2^64 bytes
LimitStrings ==
    Option({"512M", "1g", "abc", "1X", "", "9007199254740992K",
            "18014398509481984K"})

\* the requirements to_host_config is applied to
LimitRequirements ==
    {[Requirements(4, 10, << >>, "/data", l) EXCEPT
            !.memory_swap = s, !.memory_reservation = r, !.cpu_shares = sh,
            !.cpuset_cpus = cs, !.cpu_limit = c] :
        l \in LimitStrings, s \in LimitStrings, r \in LimitStrings,
        sh \in Option({512}), cs \in Option({"0-3"}), c \in Option(CpuLimits)}

\* the call about to be made
HostConfigInit ==
    /\ life = "absent"
    /\ id = None
    /\ name = None
    /\ image = ""
    /\ options = ContainerOptions_default
    /\ pc = "idle"
    /\ \E self \in LimitRequirements, overflow_checks \in BOOLEAN :
            op = Op("to_host_config", FALSE,
                    Some([overflow_checks |-> overflow_checks, self |-> self]))
    /\ id0 = None
    /\ reqs = << >>
    /\ wait_stream = << >>
    /\ pos = 0
    /\ notified = FALSE
    /\ ret = Pending
    /\ hist = NoHist
    /\ other = Unbuilt

\* requirements.to_host_config()
call_to_host_config ==
    /\ op.name = "to_host_config"
    /\ ret = Pending
    /\ Call(op, to_host_config(unwrap(op.arg).self, unwrap(op.arg).overflow_checks))

HostConfigNext == call_to_host_config

HostConfigSpec == HostConfigInit /\ [][HostConfigNext]_vars

----------------------------------------------------------------------------
\* Two Containers built from the same client. other is the second Container
\* with the position of its operation; the task that owns it is suspended at
\* an await or between two calls while the actions describe the first

\* the executor suspends the task of one Container and resumes the other's
switch ==
    /\ other' = This
    /\ life' = other.life
    /\ id' = other.id
    /\ name' = other.name
    /\ image' = other.image
    /\ options' = other.options
    /\ pc' = other.pc
    /\ op' = other.op
    /\ id0' = other.id0
    /\ reqs' = other.reqs
    /\ wait_stream' = other.wait_stream
    /\ pos' = other.pos
    /\ notified' = other.notified
    /\ ret' = other.ret
    /\ hist' = other.hist

\* images that tell the two Containers apart
PairImages == {"alpine", "nginx"}

PairNext ==
    \/ \E img \in PairImages : new(img)
    \/ \E n \in Names : with_name(n)
    \/ create
    \/ start(FALSE)
    \/ start_create
    \/ start_container
    \/ stop
    \/ remove(None)
    \/ switch

PairSpec == Init /\ [][PairNext]_vars

----------------------------------------------------------------------------
\* The builder chain: the setters applied, in any order and any number of
\* times, to a Container that new, from_id or earlier calls have produced

\* the values earlier calls of the setters have left, none of them an
\* argument of the calls that follow
EarlierOptions ==
    [name |-> Some("old"), env |-> Some(<<"z">>), cmd |-> Some(<<"z">>),
     binds |-> Some(<<"z">>), extra_hosts |-> Some(<<"z">>),
     runtime |-> Some("crun"), port_bindings |-> Some(<<"22/tcp">>),
     restart_policy |-> Some("no"), config_override |-> Some(Config_default)]

\* the options of the Container the chain starts from: nothing set, or one
\* or two fields set by earlier calls
BuilderOptions ==
    {ContainerOptions_default}
    \cup {[f \in OptionFields |-> IF f \in {a, b} THEN EarlierOptions[f] ELSE None] :
            a \in OptionFields, b \in OptionFields}

\* the arguments of the calls
BuilderStrLists == {<< >>, <<"a">>, <<"b", "c">>}
BuilderPortMaps == {<<"80/tcp">>, <<"443/tcp", "80/tcp">>}
BuilderRuntimes == {"runc", "kata"}
BuilderRestartPolicies == {"always", "on-failure"}
BuilderOverrides == Overrides \cup {SetTop(Config_default, "tty", TRUE)}

\* a Container with or without an id, no operation on it in progress
BuilderInit ==
    /\ life = "live"
    /\ id \in Option(FromIds)
    /\ image \in Images
    /\ options \in BuilderOptions
    /\ name = options.name
    /\ pc = "idle"
    /\ op = NoOp
    /\ id0 = None
    /\ reqs = << >>
    /\ wait_stream = << >>
    /\ pos = 0
    /\ notified = FALSE
    /\ ret = Pending
    /\ hist = [acquired |-> is_some(id)]
    /\ other = Unbuilt

BuilderNext ==
    \/ \E v \in BuilderStrLists : env(v)
    \/ \E v \in BuilderStrLists : cmd(v)
    \/ \E v \in BuilderStrLists : binds(v)
    \/ \E v \in BuilderStrLists : extra_hosts(v)
    \/ \E v \in BuilderPortMaps : port_bindings(v)
    \/ \E v \in BuilderRuntimes : runtime(v)
    \/ \E v \in BuilderRestartPolicies : restart_policy(v)
    \/ \E v \in BuilderOverrides : config_override(v)
    \/ \E n \in Names : with_name(n)

BuilderSpec == BuilderInit /\ [][BuilderNext]_vars

----------------------------------------------------------------------------
\* A created Container, as new and a successful create leave it
WaitInit ==
    /\ life = "live"
    /\ \E i \in Ids : id = Some(i)
    /\ name = None
    /\ \E img \in Images : image = img
    /\ options = ContainerOptions_default
    /\ pc = "idle"
    /\ op = Op("create", FALSE, None)
    /\ id0 = None
    /\ reqs = <<[Req("create", None, None, None, Accepted)
                    EXCEPT !.config = Some(config),
                           !.answer = Some([id |-> unwrap(id),
                                            warnings |-> << >>])]>>
    /\ wait_stream = << >>
    /\ pos = 0
    /\ notified = FALSE
    /\ ret = Ok
    /\ hist = [acquired |-> TRUE]
    /\ other = Unbuilt

WaitNext == wait \/ wait_container \/ wait_stream_next

\* wait() of a created Container alone; the task that awaits it polls the
\* subscription and the stream until wait_for_container returns
WaitSpec ==
    /\ WaitInit
    /\ [][WaitNext]_vars
    /\ WF_vars(wait_container)
    /\ WF_vars(wait_stream_next)

----------------------------------------------------------------------------
\* What the claims speak of

\* the operation named n has returned
Returned(n) == pc = "idle" /\ op.name = n /\ ret # Pending

\* the invocation in progress or just returned subscribed to the wait stream
Subscribed == \E i \in 1..Len(reqs) : reqs[i].kind = "wait"

\* an operation that waited on the stream has returned
WaitReturned ==
    /\ pc = "idle"
    /\ op.name \in {"start", "wait"}
    /\ ret # Pending
    /\ Subscribed

IsZero(m) == m.ok /\ m.status_code = 0
IsDetailed(m) == m.ok /\ m.status_code # 0 /\ is_some(m.error)
IsBare(m) == m.ok /\ m.status_code # 0 /\ is_none(m.error)
IsTransport(m) == ~m.ok

\* the place of the first message of s that is not a bare non-zero code, 0 if none
FirstResolving(s) ==
    LET R == {i \in 1..Len(s) : ~IsBare(s[i])}
    IN IF R = {} THEN 0 ELSE CHOOSE i \in R : \A j \in R : i <= j

IsPrefix(a, b) == Len(a) <= Len(b) /\ \A i \in 1..Len(a) : a[i] = b[i]

\* C1: on a Container whose id is absent, whatever its options, stop, remove
\* and wait return success, status and logs return None, and none of them
\* issues a request to the engine
C1_AbsentIdNoOps ==
    (pc = "idle" /\ is_none(id0)
        /\ op.name \in {"stop", "remove", "wait", "status", "logs"})
    => /\ reqs = << >>
       /\ op.name \in {"stop", "remove", "wait"} => ret = Ok
       /\ op.name = "status" => ret = OkNone
       /\ op.name = "logs" => ret = RetNone

C1_Witness ==
    /\ Returned("wait")
    /\ is_none(id0)
    /\ is_some(options.cmd)
    /\ ret = Ok

\* the requests start(wait_for_exit) issues when nothing fails
StartRequests(absent, wait_for_exit) ==
    (IF absent THEN <<"create">> ELSE << >>) \o <<"start">>
        \o (IF wait_for_exit THEN <<"wait">> ELSE << >>)

\* C2: start on an absent id issues one create and then one start request,
\* on a present id a start and no create request; the wait stream is
\* subscribed only after the start request succeeded and only when
\* wait_for_exit is true, and when the stream reports status code 0
\* start(true) returns success
C2_StartOrder ==
    op.name = "start" =>
        /\ IsPrefix(Kinds(reqs), StartRequests(is_none(id0), op.wait_for_exit))
        /\ \A i \in 1..Len(reqs) :
            /\ reqs[i].kind = "start" =>
                /\ reqs[i].id = id
                /\ is_none(id0) =>
                    i > 1 /\ reqs[i - 1].kind = "create" /\ reqs[i - 1].ok
            /\ reqs[i].kind = "wait" =>
                /\ op.wait_for_exit
                /\ i > 1 /\ reqs[i - 1].kind = "start" /\ reqs[i - 1].ok
        /\ (Returned("start") /\ is_none(id0)) =>
                \/ Kinds(reqs) = <<"create">> /\ ~reqs[1].ok /\ ret.tag = "Err"
                \/ Len(reqs) >= 2 /\ reqs[1].kind = "create" /\ reqs[2].kind = "start"
        /\ (Returned("start") /\ is_some(id0)) =>
                reqs[1].kind = "start" /\ reqs[1].id = id0
        /\ (Returned("start") /\ ret = Ok) =>
                Kinds(reqs) = StartRequests(is_none(id0), op.wait_for_exit)
        /\ (WaitReturned /\ pos > 0 /\ IsZero(wait_stream[pos])) => ret = Ok
        /\ (WaitReturned /\ wait_stream # << >> /\ IsZero(wait_stream[1])) =>
                ret = Ok /\ pos = 1

C2_Witness ==
    /\ Returned("start")
    /\ is_none(id0)
    /\ Kinds(reqs) = <<"create", "start", "wait">>
    /\ Len(wait_stream) >= 1
    /\ IsZero(wait_stream[1])
    /\ image = "alpine"
    /\ ret = Ok

\* C3: start(true), and wait() on a created Container, return success only
\* in a run in which the engine delivered a notification that the container
\* stopped running
C3_SuccessOnlyAfterNotice ==
    (pc = "idle" /\ ret = Ok
        /\ \/ op.name = "start" /\ op.wait_for_exit
           \/ op.name = "wait" /\ is_some(id0))
    => notified

\* C4: the first Ok message with status code 0, when no earlier message
\* resolved the wait, resolves it successfully, and no later message is
\* consumed or changes the outcome
C4_FirstZeroResolves ==
    LET k == FirstResolving(wait_stream)
    IN (Subscribed /\ k > 0 /\ IsZero(wait_stream[k])) =>
        /\ pos <= k
        /\ WaitReturned => ret = Ok /\ pos = k
        /\ pos = k => pc = "idle" /\ ret = Ok

C4_WitnessAfterBare ==
    /\ WaitReturned
    /\ Len(wait_stream) >= 2
    /\ IsBare(wait_stream[1])
    /\ IsZero(wait_stream[2])
    /\ ret = Ok

C4_Witness ==
    /\ WaitReturned
    /\ Len(wait_stream) >= 2
    /\ IsZero(wait_stream[1])
    /\ IsTransport(wait_stream[2])
    /\ ret = Ok

\* C5: an Ok message with a non-zero status code and an error detail
\* resolves the wait as the failure that carries the message's status code
\* and the detail's message, the empty string when it has none; no later
\* message is consumed
C5_DetailedFailure ==
    LET k == FirstResolving(wait_stream)
    IN (Subscribed /\ k > 0 /\ IsDetailed(wait_stream[k])) =>
        /\ pos <= k
        /\ pos = k => pc = "idle"
        /\ WaitReturned =>
            /\ pos = k
            /\ ret.tag = "Err"
            /\ ret.err.outer = "bollard"
            /\ ret.err.kind = "DockerContainerWaitError"
            /\ ret.err.code = wait_stream[k].status_code
            /\ ret.err.error =
                    (IF is_some(unwrap(wait_stream[k].error))
                     THEN unwrap(unwrap(wait_stream[k].error)) ELSE "")

C5_Witness ==
    /\ WaitReturned
    /\ Len(wait_stream) >= 2
    /\ wait_stream[1] = OkMsg(1, Some(None))
    /\ ret = Err(DockerContainerWaitError("", 1))

\* C6: an Err(transport error) message resolves the wait as a failure with
\* exactly that error, unchanged, and no later message is consumed
C6_TransportFailure ==
    LET k == FirstResolving(wait_stream)
    IN (Subscribed /\ k > 0 /\ IsTransport(wait_stream[k])) =>
        /\ pos <= k
        /\ pos = k => pc = "idle"
        /\ WaitReturned => pos = k /\ ret = Err(wait_stream[k].err)

C6_Witness ==
    /\ WaitReturned
    /\ op.name = "start"
    /\ Len(wait_stream) >= 2
    /\ wait_stream[1] = ErrMsg(IoError)
    /\ ret = Err(IoError)

\* C7: an Ok message with a non-zero status code and no error detail never
\* resolves the wait: the wait goes on to the next message; whenever the
\* wait fails or returns before the end of the stream, the message that
\* resolved it is not such a message; and the outcome is the one the first
\* other message gives alone, or the one of the stream's end when there is
\* none
C7_BareContinues ==
    /\ [][(pc = "wait_stream" /\ pos < Len(wait_stream)
                /\ IsBare(wait_stream[pos + 1]))
            => (pc' = "wait_stream" /\ ret' = ret /\ pos' = pos + 1)]_vars
    /\ []((WaitReturned /\ (ret.tag = "Err" \/ pos < Len(wait_stream)))
            => (pos > 0 /\ ~IsBare(wait_stream[pos])))
    /\ [](WaitReturned =>
            LET k == FirstResolving(wait_stream)
            IN IF k = 0
               THEN ret = wait_stream_end /\ pos = Len(wait_stream)
               ELSE ret = wait_msg(wait_stream[k]).ret /\ pos = k)

C7_Witness ==
    /\ pc = "wait_stream"
    /\ pos = 1
    /\ IsBare(wait_stream[1])
    /\ ret = Pending

\* C8: when the stream ends without a zero-code message, a non-zero message
\* with error detail or a transport error, the wait resolves successfully
C8_ExhaustionSucceeds ==
    (WaitReturned /\ FirstResolving(wait_stream) = 0) =>
        ret = Ok /\ pos = Len(wait_stream)

C8_Witness ==
    /\ WaitReturned
    /\ Len(wait_stream) >= 2
    /\ \A i \in 1..Len(wait_stream) : IsBare(wait_stream[i])
    /\ ret = Ok

C8_WitnessEmpty ==
    /\ WaitReturned
    /\ wait_stream = << >>
    /\ ret = Ok

\* C9: for every finite wait stream, wait() on a created Container
\* terminates with exactly one outcome, a success or a failure; the
\* messages are consumed in stream order, each at most once
C9_WaitTerminatesOnce ==
    /\ (pc # "idle") ~> (pc = "idle" /\ ret.tag \in {"Ok", "Err"})
    /\ [][pc = "wait_stream" =>
            /\ wait_stream' = wait_stream
            /\ pos' = pos \/ pos' = pos + 1
            /\ pos' <= Len(wait_stream)]_vars
    /\ [](pc # "idle" => ret = Pending)
    /\ [][(pc = "idle" /\ pc' = "idle") => ret' = ret]_vars

C9_Witness ==
    /\ Returned("wait")
    /\ is_some(id)
    /\ Len(wait_stream) >= 2
    /\ pos = Len(wait_stream)
    /\ ret.tag = "Err"

\* C10: once id holds a value, no later create() or start() on the
\* Container changes it to a different value
C10_IdNeverReassigned ==
    [][(life = "live" /\ life' = "live" /\ is_some(id)) => id' = id]_vars

\* C11: in every state of a Container, id is absent exactly when no create
\* request made by create() or start() has succeeded for it and from_id did
\* not build it; id changes only in the step of a successful create request
\* (and when from_id builds or remove consumes the Container), so setters,
\* failed creates, stop, wait, status and logs leave it alone
C11_IdAbsentIffNeverCreated ==
    /\ [](life = "live" =>
            (is_none(id) <=> ~hist.acquired))
    /\ [][(life = "live" /\ life' = "live" /\ id' # id) =>
            /\ reqs' # << >>
            /\ reqs'[Len(reqs')].kind = "create"
            /\ reqs'[Len(reqs')].ok
            /\ op'.name \in {"create", "start"}]_vars
    /\ [][(life' = "live" /\ op'.name \in {"stop", "wait", "status", "logs"})
            => id' = id]_vars
    /\ [][options' # options => (id' = id \/ life = "absent")]_vars

C11_Witness ==
    /\ Returned("stop")
    /\ hist.acquired
    /\ reqs # << >>
    /\ is_some(id)

C11_WitnessFailedCreate ==
    /\ Returned("create")
    /\ ret.tag = "Err"
    /\ life = "live"
    /\ is_none(id)
    /\ is_some(options.env)

\* the seven states ContainerStatus knows
StatusTokens == {"created", "running", "paused", "restarting", "exited",
                 "removing", "dead"}

\* the records the list request of the returned status() was answered with
Listed == unwrap(reqs[1].answer)

\* C12: status() on a Container with a present id returns an error, never
\* None and never an abnormal abort, whenever the list query returns no
\* matching record, a record without a state, or a state string outside the
\* seven recognized tokens
C12_StatusErrorOnBadRecord ==
    (Returned("status") /\ is_some(id0) /\ reqs[1].ok
        /\ \/ Listed = << >>
           \/ is_none(Listed[1].state)
           \/ unwrap(Listed[1].state) \notin StatusTokens)
    => ret.tag = "Err"

\* the engine's token for a ContainerStatus variant
TokenOf(v) ==
    CASE v = "Created" -> "created"
      [] v = "Running" -> "running"
      [] v = "Paused" -> "paused"
      [] v = "Restarting" -> "restarting"
      [] v = "Exited" -> "exited"
      [] v = "Removing" -> "removing"
      [] v = "Dead" -> "dead"
      [] OTHER -> "?"

\* C13: parsing accepts exactly the seven lowercase tokens, maps each to the
\* variant of its name, so that the token is recoverable from the variant,
\* and fails for every other string with the bad-status error that carries
\* the string unchanged
C13_FromStrExact ==
    op.name = "from_str" =>
        LET s == unwrap(op.arg)
        IN /\ s \in StatusTokens =>
                ret.tag = "OkSome" /\ TokenOf(ret.status) = s
           /\ s \notin StatusTokens => ret = Err(BadContainerStatus(s))

C13_Witness ==
    /\ op.name = "from_str"
    /\ unwrap(op.arg) = "Running"
    /\ ret.tag = "Err"
    /\ ret.err.kind = "BadContainerStatus"
    /\ ret.err.error = "Running"

C13_WitnessAccepted ==
    /\ op.name = "from_str"
    /\ unwrap(op.arg) = "restarting"
    /\ ret.tag = "OkSome"
    /\ ret.status = "Restarting"

\* C14: is_active is true exactly for Running, is_usable is false exactly for
\* Removing and Dead, and every status that is active is usable
C14_ActiveUsable ==
    /\ op.name = "is_active" =>
            /\ ret.tag \in {"true", "false"}
            /\ ret.tag = "true" <=> unwrap(op.arg) = "Running"
            /\ ret.tag = "true" => is_usable(unwrap(op.arg))
    /\ op.name = "is_usable" =>
            /\ ret.tag \in {"true", "false"}
            /\ ret.tag = "false" <=> unwrap(op.arg) \in {"Removing", "Dead"}
            /\ is_active(unwrap(op.arg)) => ret.tag = "true"

C14_Witness ==
    /\ op.name = "is_usable"
    /\ unwrap(op.arg) = "Removing"
    /\ ret.tag = "false"

C14_WitnessActive ==
    /\ op.name = "is_active"
    /\ unwrap(op.arg) = "Running"
    /\ ret.tag = "true"

\* create has returned and its request is the last of the log
CreateSent ==
    /\ Returned("create")
    /\ reqs # << >>
    /\ reqs[Len(reqs)].kind = "create"

\* the configuration that request carried
Submitted == unwrap(reqs[Len(reqs)].config)

\* the override given to config_override, Config::default() if none was
OverrideGiven ==
    IF is_some(options.config_override)
    THEN unwrap(options.config_override)
    ELSE Config_default

\* the base configuration as the claims describe it: image, cmd and env of
\* the Container, attach_stdout true, the five host settings of the options
ExpectedBaseHost ==
    [h \in HostFields |->
        IF h \in {"binds", "extra_hosts", "port_bindings", "restart_policy", "runtime"}
        THEN options[h]
        ELSE None]
ExpectedBase ==
    [f \in TopFields \cup {"host_config"} |->
        CASE f = "image" -> Some(image)
          [] f = "cmd" -> options.cmd
          [] f = "env" -> options.env
          [] f = "attach_stdout" -> Some(TRUE)
          [] f = "host_config" -> Some(ExpectedBaseHost)
          [] OTHER -> None]

\* C15: in the configuration create submits, every top-level field the
\* override sets has the override's value, and every top-level field it does
\* not set has the base value generated from the options
C15_TopFieldOverrideOrBase ==
    CreateSent =>
        \A f \in TopFields :
            Submitted[f] = IF is_some(OverrideGiven[f])
                           THEN OverrideGiven[f]
                           ELSE ExpectedBase[f]

\* C16: with no override the configuration create submits is the base
\* configuration field for field, every other field unset
C16_NoOverrideIsBase ==
    (CreateSent /\ is_none(options.config_override)) => Submitted = ExpectedBase

C16_Witness ==
    /\ CreateSent
    /\ is_none(options.config_override)
    /\ options.env = Some(<<"a">>)
    /\ Submitted.env = Some(<<"a">>)
    /\ Submitted.attach_stdout = Some(TRUE)

\* C17: merging the override into the submitted configuration again changes
\* nothing, and two creates of the same Container submit equal configurations
C17_MergeIdempotent ==
    /\ [](CreateSent => merge(Submitted, OverrideGiven) = Submitted)
    /\ [][(CreateSent /\ CreateSent') => Submitted' = Submitted]_vars

C17_Witness ==
    /\ CreateSent
    /\ options.env = Some(<<"a">>)
    /\ OverrideGiven.env = Some(<<"b">>)
    /\ Submitted.env = Some(<<"b">>)

\* C18: every field the override sets, top-level or host-level, has the
\* override's value in the configuration create submits
C18_NoOverrideFieldDropped ==
    CreateSent =>
        /\ \A f \in TopFields :
                is_some(OverrideGiven[f]) => Submitted[f] = OverrideGiven[f]
        /\ is_some(OverrideGiven.host_config) =>
                /\ is_some(Submitted.host_config)
                /\ \A h \in HostFields :
                        is_some(unwrap(OverrideGiven.host_config)[h]) =>
                            unwrap(Submitted.host_config)[h] =
                                unwrap(OverrideGiven.host_config)[h]

\* the argument of the call of parse_memory_string in op
Memory == unwrap(op.arg).memory
NumPart == SubSeq(Memory, 1, Len(Memory) - 1)
UnitPart == Char(Memory, Len(Memory))

\* limbs enough for any product of a 64-bit magnitude and 1024^3
WideLimbs == U64Limbs + 3

\* the decimal number s and n * 1024^times as mathematical integers
RECURSIVE DecimalFrom(_, _, _)
DecimalFrom(s, i, acc) ==
    IF i > Len(s) THEN acc
    ELSE DecimalFrom(s, i + 1, MulAdd(acc, 10, DigitValue(Char(s, i))).limbs)
Decimal(s) == DecimalFrom(s, 1, Zero(WideLimbs))
RECURSIVE Times1024(_, _)
Times1024(n, times) ==
    IF times = 0 THEN n ELSE Times1024(MulAdd(n, 1024, 0).limbs, times - 1)

AllDigits(s) == s # "" /\ \A i \in 1..Len(s) : IsDigit(Char(s, i))
FitsU64(n) == \A i \in (U64Limbs + 1)..WideLimbs : n[i] = 0

\* a non-negative decimal integer representable in 64 unsigned bits
ValidMagnitude(s) == AllDigits(s) /\ Len(s) <= 20 /\ FitsU64(Decimal(s))

UnitExponent(c) ==
    CASE c \in {"K", "k"} -> 1
      [] c \in {"M", "m"} -> 2
      [] c \in {"G", "g"} -> 3
      [] OTHER -> 0

\* C19: for a magnitude n that fits 64 unsigned bits and a unit K, M or G in
\* either case, parse_memory_string returns the number n * 1024, n * 1024^2
\* or n * 1024^3 itself, not a wrapped, truncated or rounded one
C19_ExactByteCount ==
    (/\ op.name = "parse_memory_string"
     /\ Memory # ""
     /\ ValidMagnitude(NumPart)
     /\ UnitExponent(UnitPart) > 0)
    => /\ ret.tag = "OkNum"
       /\ ret.value \o Zero(WideLimbs - U64Limbs) =
            Times1024(Decimal(NumPart), UnitExponent(UnitPart))

\* a decimal integer, with the sign str::parse accepts
DecimalInteger(s) ==
    \/ AllDigits(s)
    \/ s # "" /\ Char(s, 1) = "+" /\ AllDigits(SubSeq(s, 2, Len(s)))

\* C20: an input without a final K, M or G, or whose part before the final
\* character is not a decimal integer, gets an InvalidResourceLimit error
\* that names the offending token and never a number: the invalid-value
\* error with the whole input when the numeric part is invalid, the
\* invalid-unit error with the unit otherwise
C20_InvalidInputRejected ==
    op.name = "parse_memory_string" =>
        /\ (Memory = "" \/ ~DecimalInteger(NumPart)) =>
                ret = Err(InvalidResourceLimit("Invalid memory value: " \o Memory))
        /\ (Memory # "" /\ DecimalInteger(NumPart) /\ UnitExponent(UnitPart) = 0) =>
                /\ ret.tag = "Err"
                /\ ret.err.kind = "InvalidResourceLimit"
                /\ ret.err.error \in {"Invalid memory unit: " \o UnitPart,
                                      "Invalid memory value: " \o Memory}

\* the requirements and the host of the call of check in op
CheckSelf == unwrap(op.arg).self
CheckHost == unwrap(op.arg).host

\* a u64 widened, and a count of GB as a count of bytes
Widen(v) == v \o Zero(WideLimbs - U64Limbs)
GbBytes(v) == Times1024(Widen(v), 3)

StartsWithStr(s, prefix) ==
    Len(s) >= Len(prefix) /\ SubSeq(s, 1, Len(prefix)) = prefix

\* total memory meets min_memory_gb
MemoryMet ==
    ~Less(Widen(CheckHost.total_memory), GbBytes(CheckSelf.min_memory_gb))

\* the memory limit, if set, is a valid limit string not above total memory
MemoryLimitMet ==
    \/ is_none(CheckSelf.memory_limit)
    \/ LET l == unwrap(CheckSelf.memory_limit)
           num == SubSeq(l, 1, Len(l) - 1)
           unit == Char(l, Len(l))
       IN /\ l # ""
          /\ ValidMagnitude(num)
          /\ UnitExponent(unit) > 0
          /\ ~Less(Widen(CheckHost.total_memory),
                   Times1024(Decimal(num), UnitExponent(unit)))

\* the data directory as an absolute path, and the disks mounted above it
DataPath ==
    LET c == components(CheckSelf.data_directory)
    IN IF c # << >> /\ c[1] = "/" THEN c
       ELSE components(CheckHost.current_dir) \o c
DisksAbove ==
    {i \in 1..Len(CheckHost.disks) :
        LET b == components(CheckHost.disks[i].mount_point)
        IN Len(b) <= Len(DataPath) /\ \A k \in 1..Len(b) : DataPath[k] = b[k]}

\* the disk that holds the data directory: the one mounted nearest above it
HoldingDisk ==
    CHOOSE i \in DisksAbove :
        \A j \in DisksAbove :
            Len(components(CheckHost.disks[j].mount_point))
                <= Len(components(CheckHost.disks[i].mount_point))

\* the free space of the disk that holds data_directory meets min_disk_gb
DiskMet ==
    /\ DisksAbove # {}
    /\ ~Less(Widen(CheckHost.disks[HoldingDisk].available_space),
             GbBytes(CheckSelf.min_disk_gb))

\* the required ports that are taken
PortsTaken ==
    {i \in 1..Len(CheckSelf.required_ports) :
        CheckSelf.required_ports[i] \in CheckHost.bound_ports}

\* check returned an error whose message starts with one of the prefixes
CheckErr(prefixes) ==
    /\ ret.tag = "Err"
    /\ \E p \in prefixes : StartsWithStr(ret.err.error, p)

\* C21: check() returns success only when total memory meets min_memory_gb,
\* the memory limit, if set, is a valid limit string not above total memory,
\* the free space of the disk holding data_directory meets min_disk_gb and
\* every required port is free; otherwise it returns an error naming the
\* first deficient resource in the order memory, memory limit, disk, ports
C21_CheckNamesFirstDeficiency ==
    (op.name = "check" /\ ret # Pending) =>
        /\ ret = Ok => (MemoryMet /\ MemoryLimitMet /\ DiskMet /\ PortsTaken = {})
        /\ ~MemoryMet => CheckErr({"Insufficient memory"})
        /\ (MemoryMet /\ ~MemoryLimitMet) =>
                CheckErr({"Memory limit", "Invalid memory"})
        /\ (MemoryMet /\ MemoryLimitMet /\ ~DiskMet) =>
                CheckErr({"Insufficient disk space"})
        /\ (MemoryMet /\ MemoryLimitMet /\ DiskMet /\ PortsTaken # {}) =>
                LET first == CHOOSE i \in PortsTaken : \A j \in PortsTaken : i <= j
                IN CheckErr({"Port " \o Display(U64(CheckSelf.required_ports[first]))})

\* the operations that talk to the engine on behalf of a Container
LifecycleOps == {"create", "start", "stop", "remove", "status", "wait"}

\* the error a failed request was answered with is the one in ret, as it is
\* or wrapped in Error::Bollard
ReturnsFailureOf(r) ==
    /\ ret.tag = "Err"
    /\ ret.err.kind = r.err.kind
    /\ ret.err.error = r.err.error
    /\ ret.err.code = r.err.code
    /\ ret.err.outer \in {r.err.outer, "Error::Bollard"}

\* C22: within one invocation of create, start, stop, remove, status or wait
\* no kind of engine request is issued twice, a request that fails is the
\* last one of the invocation, which has returned that failure, and a
\* transport error in the wait stream ends the invocation the same way
C22_NoRetry ==
    op.name \in LifecycleOps =>
        /\ \A i, j \in 1..Len(reqs) : reqs[i].kind = reqs[j].kind => i = j
        /\ \A i \in 1..Len(reqs) :
            ~reqs[i].ok =>
                /\ i = Len(reqs)
                /\ pc = "idle"
                /\ ReturnsFailureOf(reqs[i])
        /\ (pos > 0 /\ IsTransport(wait_stream[pos])) =>
                /\ pc = "idle"
                /\ ret = Err(wait_stream[pos].err)
                /\ reqs[Len(reqs)].kind = "wait"

C22_Witness ==
    /\ Returned("start")
    /\ op.wait_for_exit
    /\ Kinds(reqs) = <<"create", "start">>
    /\ reqs[1].ok
    /\ ~reqs[2].ok
    /\ reqs[2].err = ServerError
    /\ ret.err = ServerError

\* C23: remove(options) on a Container with a present id issues exactly one
\* removal request, for that id and with the given options, returns what the
\* engine answered and consumes the Container whether the request succeeded
\* or not; on a consumed Container nothing can be invoked any more
C23_RemoveConsumes ==
    /\ []((op.name = "remove" /\ is_some(id0)) =>
            /\ Kinds(reqs) = <<"remove">>
            /\ reqs[1].id = id0
            /\ reqs[1].arg = op.arg
            /\ ret = (IF reqs[1].ok THEN Ok ELSE Err(reqs[1].err))
            /\ pc = "idle"
            /\ life = "consumed")
    /\ [][op'.name = "remove" => life' = "consumed"]_vars
    /\ [][life # "consumed"]_vars

C23_Witness ==
    /\ Returned("remove")
    /\ id0 = Some("c2")
    /\ op.arg = Some("force")
    /\ ~reqs[1].ok
    /\ ret = Err(IoError)
    /\ life = "consumed"

\* the requests logged by the invocation in progress of the Container c carry
\* the id, the name and the image of c
OwnRequests(c) ==
    \A i \in 1..Len(c.reqs) :
        LET r == c.reqs[i]
        IN IF r.kind = "create"
           THEN /\ is_none(r.id)
                /\ r.name = c.options.name
                /\ unwrap(r.config).image = Some(c.image)
                /\ r.ok => c.id = Some(unwrap(r.answer).id)
           ELSE /\ is_some(r.id)
                /\ r.id \in {c.id, c.id0}

\* C24: of two Containers built from the same client, every step is a step
\* of one of them and leaves the other as it was, id, name, image, options
\* and the position of its operation, or is the executor passing from one to
\* the other, which changes neither; and every request logged for a
\* Container carries that Container's id, name and configuration
C24_ContainersIndependent ==
    /\ [][other' = other \/ (other' = This /\ This' = other)]_vars
    /\ [](OwnRequests(This) /\ OwnRequests(other))
    /\ [](\A i \in 1..Len(reqs) :
            reqs[i].kind = "create" => reqs[i].config = Some(config))

C24_Witness ==
    /\ life = "live"
    /\ other.life = "live"
    /\ Returned("stop")
    /\ reqs # << >>
    /\ is_some(other.id)
    /\ id # other.id
    /\ name = Some("web")
    /\ other.name = Some("db")
    /\ image # other.image
    /\ other.pc = "start_container"
    /\ other.reqs # << >>

\* the engine answered the inspect request of from_id with its not-found
\* error: it does not recognize the identifier
InspectNotFound ==
    /\ op.name = "from_id"
    /\ ~reqs[1].ok
    /\ reqs[1].err.code = 404

\* C25: from_id with an identifier the engine does not recognize fails with
\* ContainerNotFound and builds no Container; when it succeeds, the
\* Container's id is the one the engine reported and it has no override
C25_FromIdNotFound ==
    /\ InspectNotFound =>
            (ret = Err(ContainerNotFound) /\ is_none(id) /\ ~hist.acquired)
    /\ (op.name = "from_id" /\ ret = Ok) =>
            /\ life = "live"
            /\ reqs[1].ok
            /\ id = unwrap(reqs[1].answer)
            /\ is_some(id)
            /\ is_none(options.config_override)

\* the host settings the options generate
OptionsHostFields ==
    {"binds", "extra_hosts", "port_bindings", "restart_policy", "runtime"}

\* C26: when the override has a host configuration, every host field it
\* leaves unset keeps the base value generated from the options, a host
\* field differs from its base value only if the override sets it, and then
\* has the override's value, and no host setting of the options becomes unset
C26_HostMergedFieldByField ==
    (CreateSent /\ is_some(OverrideGiven.host_config)) =>
        /\ is_some(Submitted.host_config)
        /\ \A h \in HostFields :
            LET o == unwrap(OverrideGiven.host_config)[h]
                sent == unwrap(Submitted.host_config)[h]
            IN /\ is_none(o) => sent = ExpectedBaseHost[h]
               /\ sent # ExpectedBaseHost[h] => (is_some(o) /\ sent = o)
        /\ \A h \in OptionsHostFields :
            is_some(options[h]) => is_some(unwrap(Submitted.host_config)[h])

C26_Witness ==
    /\ CreateSent
    /\ is_some(OverrideGiven.host_config)
    /\ unwrap(OverrideGiven.host_config).binds = Some(<<"b">>)
    /\ is_none(unwrap(OverrideGiven.host_config).extra_hosts)
    /\ options.binds = Some(<<"a">>)
    /\ unwrap(Submitted.host_config).binds = Some(<<"b">>)
    /\ unwrap(Submitted.host_config).extra_hosts = Some(<<"a">>)
    /\ unwrap(Submitted.host_config).runtime = Some("runc")

\* C27: when the engine rejects the create request, create returns the
\* engine's error and leaves id as it was, absent if it was absent;
\* start, when its create is rejected, issues no start request and no wait
\* subscription and returns that error; name, image and options are not
\* changed by any step of create or start
C27_RejectedCreate ==
    /\ []((Returned("create") /\ ~reqs[1].ok) =>
            /\ Kinds(reqs) = <<"create">>
            /\ ret = Err(reqs[1].err)
            /\ id = id0)
    /\ []((op.name = "start" /\ reqs # << >> /\ reqs[1].kind = "create"
                /\ ~reqs[1].ok) =>
            /\ Kinds(reqs) = <<"create">>
            /\ pc = "idle"
            /\ ret = Err(reqs[1].err)
            /\ is_none(id0)
            /\ is_none(id))
    /\ [][(life = "live" /\ op'.name \in {"create", "start"}) =>
            (name' = name /\ image' = image /\ options' = options)]_vars

C27_Witness ==
    /\ Returned("start")
    /\ op.wait_for_exit
    /\ Kinds(reqs) = <<"create">>
    /\ ~reqs[1].ok
    /\ ret = Err(ServerError)
    /\ is_none(id)
    /\ is_some(options.cmd)

C27_WitnessCreate ==
    /\ Returned("create")
    /\ ~reqs[1].ok
    /\ ret = Err(IoError)
    /\ is_none(id)
    /\ name = Some("web")

\* start on a Container never created has returned an error after its
\* create request succeeded
StartFailedAfterCreate ==
    /\ Returned("start")
    /\ is_none(id0)
    /\ reqs # << >>
    /\ reqs[1].kind = "create"
    /\ reqs[1].ok
    /\ ret.tag = "Err"

\* C28: when start on a Container never created creates it and then fails,
\* at the start request or in the wait, it returns that error and id is the
\* identifier the create request returned; a start invoked next finds that
\* id, and a start on a present id issues a start request for it and no
\* create request
C28_StartAfterFailedStart ==
    /\ [](StartFailedAfterCreate =>
            /\ id = Some(unwrap(reqs[1].answer).id)
            /\ \/ Kinds(reqs) = <<"create", "start">>
                    /\ ~reqs[2].ok /\ ret = Err(reqs[2].err)
               \/ Kinds(reqs) = <<"create", "start", "wait">>
                    /\ op.wait_for_exit /\ reqs[2].ok /\ pos > 0
                    /\ ret = wait_msg(wait_stream[pos]).ret)
    /\ [][(StartFailedAfterCreate /\ op'.name = "start" /\ ret' = Pending) =>
            (id0' = id /\ id' = id /\ reqs' = << >> /\ pc' = "start_container")]_vars
    /\ []((op.name = "start" /\ is_some(id0)) =>
            /\ id = id0
            /\ \A i \in 1..Len(reqs) : reqs[i].kind # "create"
            /\ pc = "start_container" => reqs = << >>
            /\ pc # "start_container" =>
                    (reqs # << >> /\ reqs[1].kind = "start" /\ reqs[1].id = id0))

C28_Witness ==
    /\ StartFailedAfterCreate
    /\ Kinds(reqs) = <<"create", "start">>
    /\ ret = Err(ServerError)
    /\ id = Some("c2")

C28_WitnessWait ==
    /\ StartFailedAfterCreate
    /\ Kinds(reqs) = <<"create", "start", "wait">>
    /\ ret = Err(IoError)
    /\ id = Some("c1")

\* C29: whenever the engine accepts the create request, create returns
\* success and id is the identifier of the response, whatever warnings the
\* response carries; every create request names the container exactly when
\* the options hold a name, and with that name
C29_WarningsNotFatal ==
    /\ (Returned("create") /\ reqs[1].ok) =>
            /\ ret = Ok
            /\ id = Some(unwrap(reqs[1].answer).id)
    /\ \A i \in 1..Len(reqs) :
            reqs[i].kind = "create" =>
                /\ reqs[i].name = options.name
                /\ reqs[i].ok => id = Some(unwrap(reqs[i].answer).id)

C29_Witness ==
    /\ Returned("create")
    /\ reqs[1].ok
    /\ Len(unwrap(reqs[1].answer).warnings) = 2
    /\ ret = Ok
    /\ id = Some("c2")
    /\ reqs[1].name = Some("db")

C29_WitnessUnnamed ==
    /\ Returned("create")
    /\ reqs[1].ok
    /\ unwrap(reqs[1].answer).warnings = <<"deprecated">>
    /\ ret = Ok
    /\ is_none(reqs[1].name)
    /\ is_none(options.name)

\* the response a logged list request was answered with
ListResponse(r) ==
    [ok |-> r.ok, err |-> r.err,
     containers |-> IF r.ok THEN unwrap(r.answer) ELSE << >>]

\* C30: every status() on a created Container issues exactly one list
\* request, filtered by the Container's id and with stopped containers
\* included, and returns what the answer to that request alone determines,
\* also when the call before it was a status() with another result
C30_StatusNotCached ==
    /\ []((Returned("status") /\ is_some(id0)) =>
            /\ Kinds(reqs) = <<"list">>
            /\ reqs[1].id = id0
            /\ reqs[1].arg = Some("all")
            /\ ret = status_of(ListResponse(reqs[1])))
    /\ [][(Returned("status") /\ is_some(id) /\ op'.name = "status"
                /\ life' = "live") =>
            /\ Kinds(reqs') = <<"list">>
            /\ reqs'[1].id = id
            /\ ret' = status_of(ListResponse(reqs'[1]))]_vars

C30_Witness ==
    /\ Returned("status")
    /\ id0 = Some("c1")
    /\ reqs[1].id = Some("c1")
    /\ reqs[1].arg = Some("all")
    /\ reqs[1].ok
    /\ unwrap(reqs[1].answer) = <<[state |-> Some("exited")]>>
    /\ ret = OkSome("Exited")

----------------------------------------------------------------------------
\* C31: each builder setter replaces its own field wholesale. After a call
\* the field holds the argument of that call, whatever an earlier call of
\* the same setter gave it; a call leaves every other field of the options
\* as it was, so the argument of the call before it, if that was another
\* setter, is still in place and the two calls give the same options in
\* either order; no call changes id or image, and only with_name changes
\* name, to the argument it stores in the options too.
SetterNames == (OptionFields \ {"name"}) \cup {"with_name"}

FieldOf(o) == IF o.name = "with_name" THEN "name" ELSE o.name

LastArgumentInPlace ==
    op.name \in SetterNames =>
        /\ options[FieldOf(op)] = op.arg
        /\ op.name = "with_name" => name = op.arg

SetterReplaces ==
    op'.name \in SetterNames =>
        /\ options' = [options EXCEPT ![FieldOf(op')] = op'.arg]
        /\ \A f \in OptionFields \ {FieldOf(op')} : options'[f] = options[f]
        /\ (op.name \in SetterNames /\ FieldOf(op) # FieldOf(op')) =>
               options'[FieldOf(op)] = op.arg
        /\ name' = IF op'.name = "with_name" THEN op'.arg ELSE name
        /\ id' = id
        /\ image' = image
        /\ life' = life

C31_SettersReplace == [](LastArgumentInPlace) /\ [][SetterReplaces]_vars

\* env was called, then cmd on a field an earlier call had set: env's
\* argument is still in place and cmd's has replaced the earlier value
C31_Witness ==
    /\ op = Op("cmd", FALSE, Some(<<"b", "c">>))
    /\ options.cmd = Some(<<"b", "c">>)
    /\ options.env = Some(<<"a">>)
    /\ options.runtime = None
    /\ is_some(id)

----------------------------------------------------------------------------
\* C32: no step of create, start, stop, wait, status or logs, whether its
\* request is accepted or fails, changes the Container's image, name or
\* options; a step of these operations changes id only when it issues a
\* create request, in create or in start, that the engine accepts, and then
\* to the id of the engine's answer.
FrameOps == {"create", "start", "stop", "wait", "status", "logs"}

LastRequest(rs) == rs[Len(rs)]

FrameStep ==
    (life = "live" /\ op'.name \in FrameOps) =>
        /\ image' = image
        /\ name' = name
        /\ options' = options
        /\ life' = life
        /\ id' # id =>
            /\ op'.name \in {"create", "start"}
            /\ reqs' # << >>
            /\ Len(reqs') = IF op'.name = "create" THEN 1 ELSE Len(reqs) + 1
            /\ LastRequest(reqs').kind = "create"
            /\ LastRequest(reqs').ok
            /\ id' = Some(unwrap(LastRequest(reqs').answer).id)

C32_LifecycleFrame == [][FrameStep]_vars

\* status has failed on a Container that was named, created as c2 and then
\* asked for its status: name, options and id are those it had
C32_Witness ==
    /\ Returned("status")
    /\ ret.tag = "Err"
    /\ ~reqs[1].ok
    /\ name = Some("db")
    /\ options = [ContainerOptions_default EXCEPT !.name = Some("db")]
    /\ id = Some("c2")
    /\ id0 = id
    /\ image = "alpine"

----------------------------------------------------------------------------
\* C33: to_host_config always returns a host configuration; in it the limit
\* of a memory_limit, memory_swap or memory_reservation that
\* parse_memory_string rejects is unset, the limit of one it accepts is the
\* byte count it parsed, and cpu_shares and cpuset_cpus are those of the
\* requirements.
LimitSelf == unwrap(op.arg).self

LimitAsParsed(limit, field) ==
    is_some(limit) =>
        LET r == parse_memory_string(unwrap(limit), unwrap(op.arg).overflow_checks)
        IN /\ r.tag = "Err" => ret.value[field] = None
           /\ r.tag = "OkNum" => ret.value[field] = Some(I64(FALSE, r.value))

C33_ToHostConfigNeverFails ==
    (op.name = "to_host_config" /\ ret.tag # "Pending") =>
        /\ ret.tag = "HostConfig"
        /\ LimitAsParsed(LimitSelf.memory_limit, "memory")
        /\ LimitAsParsed(LimitSelf.memory_swap, "memory_swap")
        /\ LimitAsParsed(LimitSelf.memory_reservation, "memory_reservation")
        /\ ret.value.cpu_shares = LimitSelf.cpu_shares
        /\ ret.value.cpuset_cpus = LimitSelf.cpuset_cpus

====
